---- MODULE Spec2Model ----
(***************************************************************************)
(* Model of the Gemini MCP server: the tools/call handler of src/index.ts  *)
(* and the GeminiClient adapter of src/gemini-client.ts.  Every tool call  *)
(* is validated, handed to one adapter method, and the adapter races its   *)
(* upstream operation against a deadline timer (uploadAndQuery uploads,    *)
(* polls and then queries).  Upstream results and errors are drawn from    *)
(* small sets; strings that the code inspects are sequences of characters. *)
(***************************************************************************)
EXTENDS Integers, Sequences, FiniteSets, TLC

\* The state: the tool calls, the client's base timeout, process.env and the
\* configuration loaded from it (described with the call record below).
VARIABLES calls, timeout, env, config

(***************************************************************************)
(* Bounds of the model.                                                    *)
(***************************************************************************)
\* Longest excluded_domains list a caller supplies (the schema allows 5).
MaxDomains == 6
\* The longest list of reference images handed to generateImage.
MaxRefs == 2
\* The longest list of parts in an upstream candidate.
MaxParts == 3
\* A thinking budget a caller passes other than zero.
SomeBudget == 1024
\* A base timeout configured instead of the default, in milliseconds.
OtherTimeout == 30000
\* Longest urls list a caller supplies beyond the schema's maximum of 20.
ExtraUrls == 1

(***************************************************************************)
(* Program constants.                                                      *)
(***************************************************************************)
DefaultTimeout == 60000
maxWait == 60000
pollInterval == 2000
MaxExcludedDomains == 5
MinUrls == 1
MaxUrls == 20
MinLatitude == -90
MaxLatitude == 90
MinLongitude == -180
MaxLongitude == 180
\* options?.thinkingBudget ?? 8192
DefaultThinkingBudget == 8192

\* JavaScript's undefined for a string-valued field.
Undefined == "<undefined>"
\* An optional non-string value is << >> (undefined) or <<v>>.
Absent == << >>
Some(v) == <<v>>
IsSet(o) == o # << >>


(***************************************************************************)
(* Strings the code inspects, as sequences of characters.                  *)
(***************************************************************************)
RequestTimeoutMsg == <<"R","e","q","u","e","s","t"," ","t","i","m","e","o","u","t">>
SAFETY == <<"S","A","F","E","T","Y">>
blocked == <<"b","l","o","c","k","e","d">>
fetch == <<"f","e","t","c","h">>
NoFileNameMsg == <<"F","i","l","e"," ","u","p","l","o","a","d"," ","f","a","i","l","e","d",":"," ","n","o"," ","f","i","l","e"," ","n","a","m","e"," ","r","e","t","u","r","n","e","d">>
ProcessingFailedMsg == <<"F","i","l","e"," ","p","r","o","c","e","s","s","i","n","g"," ","f","a","i","l","e","d">>
ProcessingTimedOutMsg == <<"F","i","l","e"," ","p","r","o","c","e","s","s","i","n","g"," ","t","i","m","e","d"," ","o","u","t">>
\* String(error) of an Error whose message is empty or missing.
ErrorToString(error) == error.str

\* String.prototype.includes: needle occurs as a contiguous run of hay.
Includes(hay, needle) ==
    \E i \in 0..(Len(hay) - Len(needle)) :
        SubSeq(hay, i + 1, i + Len(needle)) = needle
\* String.prototype.startsWith
StartsWith(s, prefix) ==
    Len(s) >= Len(prefix) /\ SubSeq(s, 1, Len(prefix)) = prefix

(***************************************************************************)
(* Model identifiers, as sequences of characters; << >> is a model that    *)
(* the caller left out (or gave as the empty string).                      *)
(***************************************************************************)
NoModel == << >>
Gemini25Flash == <<"g","e","m","i","n","i","-","2",".","5","-","f","l","a","s","h">>
Gemini25Pro == <<"g","e","m","i","n","i","-","2",".","5","-","p","r","o">>
Gemini3Flash == <<"g","e","m","i","n","i","-","3","-","f","l","a","s","h","-","p","r","e","v","i","e","w">>
Gemini3Pro == <<"g","e","m","i","n","i","-","3","-","p","r","o","-","p","r","e","v","i","e","w">>
Gemini25FlashImage == <<"g","e","m","i","n","i","-","2",".","5","-","f","l","a","s","h","-","i","m","a","g","e">>
Gemini3ProImage == <<"g","e","m","i","n","i","-","3","-","p","r","o","-","i","m","a","g","e","-","p","r","e","v","i","e","w">>
Imagen4 == <<"i","m","a","g","e","n","-","4",".","0","-","g","e","n","e","r","a","t","e","-","0","0","1">>
ImagenPrefix == <<"i","m","a","g","e","n","-">>

\* config.defaultModel, the fallback of the text tools.
DEFAULT_MODEL == config.defaultModel
DEFAULT_IMAGE_MODEL == Gemini25FlashImage
NANO_BANANA_PRO_MODEL == Gemini3ProImage
GEMINI_3_MODELS == {Gemini3Flash, Gemini3Pro}

(***************************************************************************)
(* Failure signals.  An error carries an optional message, an optional     *)
(* HTTP status (0: none) and an optional code ("": none); str is what      *)
(* String(error) gives for a value without message: the name of an Error,  *)
(* "[object Object]" for a plain object, a string itself.                  *)
(***************************************************************************)
NoStatus == 0
NoCode == ""
MkError(hasMsg, msg, status, code) ==
    [hasMsg |-> hasMsg, msg |-> msg, status |-> status, code |-> code,
     str |-> <<"E","r","r","o","r">>]
\* new Error(message): no status, no code.
NewError(msg) == MkError(TRUE, msg, NoStatus, NoCode)

UpstreamMessages ==
    { RequestTimeoutMsg,
      <<"R","e","q","u","e","s","t"," ","t","i","m","e","o","u","t","!">>,
      SAFETY,
      <<"s","a","f","e","t","y">>,
      <<"u","n","b","l","o","c","k","e","d">>,
      <<"f","e","t","c","h"," ","f","a","i","l","e","d">>,
      <<"q","u","o","t","a">> }
UpstreamStatuses == {NoStatus, 401, 403, 429, 500}
UpstreamCodes == {NoCode, "ENOTFOUND", "ECONNREFUSED"}
UpstreamErrors ==
    { MkError(TRUE, m, s, c) :
        m \in UpstreamMessages, s \in UpstreamStatuses, c \in UpstreamCodes }
    \cup { MkError(FALSE, << >>, s, c) :
        s \in UpstreamStatuses, c \in UpstreamCodes }
    \cup { [MkError(FALSE, << >>, 500, NoCode) EXCEPT !.str = t] :
        t \in { <<"A","p","i","E","r","r","o","r">>,
                <<"[","o","b","j","e","c","t"," ","O","b","j","e","c","t","]">> } }
    \cup { [MkError(FALSE, << >>, NoStatus, NoCode) EXCEPT !.str = <<"b","o","o","m">>] }

(***************************************************************************)
(* GeminiClient.handleError: the first matching test decides the category  *)
(* and the message of the Error that the adapter throws.                   *)
(***************************************************************************)
Failure(category, template, arg) ==
    [category |-> category, template |-> template, arg |-> arg]

IsTimeoutError(error) == error.hasMsg /\ error.msg = RequestTimeoutMsg
IsAuthError(error) == error.status = 401 \/ error.status = 403
IsRateLimitError(error) == error.status = 429
IsSafetyError(error) ==
    error.hasMsg /\ (Includes(error.msg, SAFETY) \/ Includes(error.msg, blocked))
IsNetworkError(error) ==
    \/ error.code = "ENOTFOUND"
    \/ error.code = "ECONNREFUSED"
    \/ (error.hasMsg /\ Includes(error.msg, fetch))

\* A faulty variant of handleError: the status tests run before the timeout test.
handleError_StatusFirst(error) ==
    IF IsAuthError(error)
    THEN Failure("AuthRejected",
                 "Invalid Gemini API key. Please check your GEMINI_API_KEY environment variable.",
                 << >>)
    ELSE IF IsRateLimitError(error)
    THEN Failure("RateLimited",
                 "Gemini API rate limit exceeded. Please wait a moment and try again.",
                 << >>)
    ELSE IF IsTimeoutError(error)
    THEN Failure("Timeout", "Gemini API request timed out. Please try again.", << >>)
    ELSE IF IsSafetyError(error)
    THEN Failure("ContentFiltered",
                 "Content blocked by Gemini's safety filters. Try rephrasing your request.",
                 << >>)
    ELSE IF IsNetworkError(error)
    THEN Failure("NetworkUnreachable", "Failed to connect to Gemini API: ${error.message}",
                 IF error.hasMsg THEN error.msg ELSE <<"u","n","d","e","f","i","n","e","d">>)
    ELSE Failure("Unclassified", "Gemini API error: ${error.message || error}",
                 IF error.hasMsg /\ error.msg # << >> THEN error.msg ELSE ErrorToString(error))

handleError(error) ==
    IF IsTimeoutError(error)
    THEN Failure("Timeout", "Gemini API request timed out. Please try again.", << >>)
    ELSE IF IsAuthError(error)
    THEN Failure("AuthRejected",
                 "Invalid Gemini API key. Please check your GEMINI_API_KEY environment variable.",
                 << >>)
    ELSE IF IsRateLimitError(error)
    THEN Failure("RateLimited",
                 "Gemini API rate limit exceeded. Please wait a moment and try again.",
                 << >>)
    ELSE IF IsSafetyError(error)
    THEN Failure("ContentFiltered",
                 "Content blocked by Gemini's safety filters. Try rephrasing your request.",
                 << >>)
    ELSE IF IsNetworkError(error)
    THEN Failure("NetworkUnreachable", "Failed to connect to Gemini API: ${error.message}",
                 IF error.hasMsg THEN error.msg ELSE <<"u","n","d","e","f","i","n","e","d">>)
    ELSE Failure("Unclassified", "Gemini API error: ${error.message || error}",
                 IF error.hasMsg /\ error.msg # << >> THEN error.msg ELSE ErrorToString(error))

(***************************************************************************)
(* loadConfig.  An environment variable is Absent when unset and           *)
(* Some(string) otherwise, the string a sequence of characters.  The       *)
(* timeout of a configuration is Some(n), or Absent for NaN.  An empty     *)
(* string is falsy, so || and ?: treat it as unset.                        *)
(***************************************************************************)
Digits == <<"0", "1", "2", "3", "4", "5", "6", "7", "8", "9">>

\* Number.prototype.toString for a natural number.
RECURSIVE ToDigits(_)
ToDigits(n) ==
    IF n < 10 THEN <<Digits[n + 1]>>
    ELSE ToDigits(n \div 10) \o <<Digits[(n % 10) + 1]>>

\* parseInt(s, 10): leading white space is skipped (every StrWhiteSpaceChar:
\* blank, tab, line feed, carriage return, form feed, vertical tab, no-break
\* space, U+FEFF, the line and paragraph separators and the Unicode space
\* separators; a character a module cannot hold is named by its escape, as
\* in "\\u2028"), a sign is taken, then the longest run of decimal digits; no
\* digit there parses to NaN.
ParseInt(s) ==
    LET n == Len(s)
        WhiteSpace == {" ", "\t", "\n", "\r", "\f", "", " ", "﻿", " ",
                       "\\u2000", "\\u2001", "\\u2002", "\\u2003", "\\u2004",
                       "\\u2005", "\\u2006", "\\u2007", "\\u2008", "\\u2009",
                       "\\u200a", "\\u2028", "\\u2029", "\\u202f", "\\u205f",
                       "\\u3000"}
        IsDigit(i) == i <= n /\ \E k \in 1..10 : Digits[k] = s[i]
        DigitAt(i) == (CHOOSE k \in 1..10 : Digits[k] = s[i]) - 1
        first == CHOOSE i \in 1..(n + 1) :
                     /\ i = n + 1 \/ s[i] \notin WhiteSpace
                     /\ \A j \in 1..(i - 1) : s[j] \in WhiteSpace
        signed == first <= n /\ s[first] \in {"+", "-"}
        from == IF signed THEN first + 1 ELSE first
        upto == CHOOSE i \in (from - 1)..n :
                     /\ \A j \in from..i : IsDigit(j)
                     /\ ~IsDigit(i + 1)
        value[i \in (from - 1)..n] ==
            IF i = from - 1 THEN 0 ELSE value[i - 1] * 10 + DigitAt(i)
    IN IF upto < from THEN Absent
       ELSE IF signed /\ s[first] = "-" THEN Some(0 - value[upto])
       ELSE Some(value[upto])

\* loadConfig: throws without an API key; the timeout is parseInt of
\* GEMINI_TIMEOUT or 60000; throws when timeout <= 0, which NaN is not.
loadConfig(environment) ==
    IF ~IsSet(environment.apiKey) \/ environment.apiKey[1] = << >>
    THEN [status |-> "error", timeout |-> Absent, defaultModel |-> NoModel,
          outputDir |-> "",
          error |-> "Gemini API key not configured. Please set the GEMINI_API_KEY environment variable."]
    ELSE LET defaultModel ==
                 IF IsSet(environment.defaultModel) /\ environment.defaultModel[1] # << >>
                 THEN environment.defaultModel[1]
                 ELSE Gemini25Flash
             outputDir ==
                 IF IsSet(environment.outputDir) /\ environment.outputDir[1] # ""
                 THEN environment.outputDir[1]
                 ELSE "./generated-images"
             parsed == IF IsSet(environment.timeoutStr) /\ environment.timeoutStr[1] # << >>
                       THEN ParseInt(environment.timeoutStr[1])
                       ELSE Some(DefaultTimeout)
         IN IF IsSet(parsed) /\ parsed[1] <= 0
            THEN [status |-> "error", timeout |-> Absent, defaultModel |-> NoModel,
                  outputDir |-> "",
                  error |-> "GEMINI_TIMEOUT must be a positive number"]
            ELSE [status |-> "ok", timeout |-> parsed, defaultModel |-> defaultModel,
                  outputDir |-> outputDir, error |-> ""]

\* The values of GEMINI_API_KEY, GEMINI_DEFAULT_MODEL, GEMINI_OUTPUT_DIR and
\* GEMINI_TIMEOUT loadConfig is tried on.
Envs ==
    { [apiKey |-> k, defaultModel |-> m, outputDir |-> o, timeoutStr |-> t] :
        k \in {Absent, Some(<< >>), Some(<<"k">>)},
        m \in {Absent, Some(<< >>), Some(Gemini25Pro)},
        o \in {Absent, Some(""), Some("/out")},
        t \in {Absent, Some(<< >>)} \cup
              { Some(str) : str \in
                  { <<"0">>, <<"1">>, <<"-", "5">>, <<"-", "0">>, <<"+", "7">>,
                    <<"0", "0", "7">>, <<"a", "b", "c">>, <<"1", "2", "a", "b">>,
                    <<"a", "1", "2">>, <<" ", "4", "2">>, <<" ">>, <<"-">>,
                    <<"1", ".", "5">>, <<"0", ".", "5">>, <<"1", "e", "3">>,
                    <<"0", "x", "1", "0">>, <<"N", "a", "N">>,
                    <<"6", "0", "0", "0", "0">>, <<"-", "1", "0", "0">>,
                    <<"\t", "4", "2">>, <<"\n", "4", "2">>, <<"\t", "-", "5">>,
                    <<" ", "9">>, <<"\r", " ", "\f", "0">>,
                    <<"", "4", "2">>, <<"", "-", "5">>, <<"﻿", "4", "2">>,
                    <<"\\u2028", "7">>, <<"\\u3000", "-", "1">> } } }

(***************************************************************************)
(* Tool inputs.  One record shape serves every tool; a tool reads only the *)
(* fields of its own schema.  text is the tool's prompt, query, topic,     *)
(* code or concept; path is image_path or file_path and exists is what     *)
(* fs.existsSync answers for it.                                           *)
(***************************************************************************)
Tools ==
    { "ask", "brainstorm", "code_review", "explain", "generate_image", "edit_image",
      "search_web", "search_with_thinking", "run_code", "fetch_url", "analyze_image",
      "upload_file", "google_maps" }
UnknownTools == {"list_models"}
\* Tools whose schema requires a non-empty text field.
RequiredTextTools == Tools \ {"analyze_image", "upload_file"}
\* Tools that read a local file before calling the adapter.
PathTools == {"edit_image", "analyze_image", "upload_file"}

\* The methods of GeminiClient a caller other than the tools/call handler
\* invokes directly, with options no tool passes.
AdapterMethods == {"generateImage", "generateWithThinking"}

DefaultArgs ==
    [ text |-> "hi", model |-> NoModel, urls |-> Absent, excluded |-> Absent,
      lat |-> Absent, lon |-> Absent, path |-> Undefined, exists |-> FALSE,
      thinkingLevel |-> Absent, thinkingBudget |-> Absent,
      useSearchGrounding |-> Absent, referenceImages |-> Absent,
      aspectRatio |-> Undefined, resolution |-> Undefined, savePath |-> Undefined ]

\* A list of n distinct entries.
ListOf(n) == [i \in 1..n |-> i]

Texts == {Undefined, "", "hi"}
\* "/data/a.png" names a regular file and "/dirpath" a directory, when they
\* exist.
Paths == {Undefined, "", "/data/a.png", "/dirpath"}
DomainLists == {Absent} \cup {Some(ListOf(n)) : n \in 0..MaxDomains}
UrlLists == {Absent} \cup {Some(ListOf(n)) : n \in 0..(MaxUrls + ExtraUrls)}
Latitudes ==
    {Absent} \cup {Some(v) : v \in {MinLatitude - 1, MinLatitude, 0, MaxLatitude, MaxLatitude + 1}}
Longitudes ==
    {Absent} \cup {Some(v) : v \in {MinLongitude - 1, MinLongitude, 0, MaxLongitude, MaxLongitude + 1}}
\* z.enum(['minimal', 'low', 'medium', 'high'])
ThinkingLevelEnum ==
    { <<"m","i","n","i","m","a","l">>, <<"l","o","w">>,
      <<"m","e","d","i","u","m">>, <<"h","i","g","h">> }
\* thinking_level as a caller may send it: absent, a level of the enum, a
\* word outside it, a capitalised level, the empty string.
ThinkingLevels ==
    {Absent, Some(<< >>), Some(<<"e","x","t","r","e","m","e">>), Some(<<"H","I","G","H">>)}
        \cup {Some(l) : l \in ThinkingLevelEnum}
\* z.number().optional()
ThinkingBudgets == {Absent, Some(0), Some(SomeBudget)}
\* options.useSearchGrounding and options.referenceImages of generateImage.
GroundingFlags == {Absent, Some(FALSE), Some(TRUE)}
ReferenceLists == {Absent} \cup {Some(ListOf(n)) : n \in 0..MaxRefs}
\* aspect_ratio: z.string().optional(), one listed token and one that is not.
AspectRatios == {Undefined, "16:9", "2:1"}
\* resolution: z.string().optional(), one listed token and one that is not.
Resolutions == {Undefined, "4K", "8K"}
\* save_path: z.string().optional()
\* "/data/a.png/x.png" lies under a regular file: writing it fails.
SavePaths == {Undefined, "/out/a.png", "/data/a.png/x.png"}

ToolInputs(tool) ==
    CASE tool = "ask" ->
           {[DefaultArgs EXCEPT !.text = t, !.model = m] :
               t \in Texts, m \in {NoModel, Gemini25Pro}}
      [] tool \in {"brainstorm", "code_review", "explain"} ->
           {[DefaultArgs EXCEPT !.text = t] : t \in Texts}
      [] tool = "run_code" ->
           {[DefaultArgs EXCEPT !.text = t, !.model = m] :
               t \in Texts, m \in {NoModel, Gemini25Pro}}
      [] tool = "generate_image" ->
           {[DefaultArgs EXCEPT !.text = t, !.model = m, !.aspectRatio = a,
                                !.resolution = r, !.savePath = s] :
               t \in Texts, m \in {NoModel, Gemini3ProImage, Imagen4},
               a \in AspectRatios, r \in Resolutions, s \in SavePaths}
      [] tool = "edit_image" ->
           {[DefaultArgs EXCEPT !.text = t, !.model = m, !.path = p, !.exists = e,
                                !.aspectRatio = a, !.resolution = r, !.savePath = s] :
               t \in Texts, m \in {NoModel, Gemini3ProImage}, p \in Paths, e \in BOOLEAN,
               a \in AspectRatios, r \in Resolutions, s \in SavePaths}
      [] tool = "search_with_thinking" ->
           {[DefaultArgs EXCEPT !.text = t, !.model = m,
                                !.thinkingLevel = l, !.thinkingBudget = b] :
               t \in Texts, m \in {NoModel, Gemini3Flash, Gemini3ProImage},
               l \in ThinkingLevels, b \in ThinkingBudgets}
      \* options.thinkingLevel of a direct caller: the tool's enum does not apply.
      [] tool = "generateWithThinking" ->
           {[DefaultArgs EXCEPT !.model = m, !.thinkingLevel = l, !.thinkingBudget = b] :
               m \in {Gemini25Flash, Gemini3Flash},
               l \in {Absent, Some(<<"l","o","w">>), Some(<<"e","x","t","r","e","m","e">>),
                      Some(<<"H","i","g","h">>)},
               b \in {Absent, Some(0)}}
      [] tool = "generateImage" ->
           {[DefaultArgs EXCEPT !.model = m, !.useSearchGrounding = g,
                                !.referenceImages = r] :
               m \in {Gemini25FlashImage, Gemini3ProImage, Imagen4},
               g \in GroundingFlags, r \in ReferenceLists}
      [] tool = "search_web" ->
           {[DefaultArgs EXCEPT !.text = t, !.model = m, !.excluded = d] :
               t \in Texts, m \in {NoModel, Gemini25Pro}, d \in DomainLists}
      [] tool = "fetch_url" ->
           {[DefaultArgs EXCEPT !.text = t, !.model = m, !.urls = u] :
               t \in Texts, m \in {NoModel, Gemini25Pro}, u \in UrlLists}
      [] tool = "google_maps" ->
           {[DefaultArgs EXCEPT !.text = t, !.model = m, !.lat = la, !.lon = lo] :
               t \in Texts, m \in {NoModel, Gemini25Pro},
               la \in Latitudes, lo \in Longitudes}
      [] tool \in PathTools ->
           {[DefaultArgs EXCEPT !.text = t, !.model = m, !.path = p, !.exists = e] :
               t \in Texts, m \in {NoModel, Gemini25Pro}, p \in Paths, e \in BOOLEAN}
      [] OTHER -> {DefaultArgs}

(***************************************************************************)
(* The zod schemas of the tools/call handler.                              *)
(***************************************************************************)
\* z.string().min(1)
NonEmptyString(s) == s # Undefined /\ Len(s) >= 1
\* z.array(z.string()).min(lo).max(hi)
ArrayWithin(o, lo, hi) == IsSet(o) /\ Len(o[1]) >= lo /\ Len(o[1]) <= hi
\* z.number().min(lo).max(hi).optional()
OptionalNumberWithin(o, lo, hi) == IsSet(o) => (o[1] >= lo /\ o[1] <= hi)

\* A faulty variant of Validate: the urls schema has no upper limit.
Validate_NoUrlMax(tool, args) ==
    CASE tool = "fetch_url" ->
           NonEmptyString(args.text) /\ IsSet(args.urls) /\ Len(args.urls[1]) >= MinUrls
      [] tool = "search_web" ->
           /\ NonEmptyString(args.text)
           /\ (IsSet(args.excluded) => Len(args.excluded[1]) <= MaxExcludedDomains)
      [] tool = "google_maps" ->
           /\ NonEmptyString(args.text)
           /\ OptionalNumberWithin(args.lat, MinLatitude, MaxLatitude)
           /\ OptionalNumberWithin(args.lon, MinLongitude, MaxLongitude)
      [] tool = "edit_image" -> NonEmptyString(args.text) /\ NonEmptyString(args.path)
      [] tool \in {"analyze_image", "upload_file"} -> NonEmptyString(args.path)
      [] tool = "search_with_thinking" ->
           /\ NonEmptyString(args.text)
           /\ (IsSet(args.thinkingLevel) => args.thinkingLevel[1] \in ThinkingLevelEnum)
      [] OTHER -> NonEmptyString(args.text)

Validate(tool, args) ==
    CASE tool = "fetch_url" ->
           NonEmptyString(args.text) /\ ArrayWithin(args.urls, MinUrls, MaxUrls)
      [] tool = "search_web" ->
           /\ NonEmptyString(args.text)
           /\ (IsSet(args.excluded) => Len(args.excluded[1]) <= MaxExcludedDomains)
      [] tool = "google_maps" ->
           /\ NonEmptyString(args.text)
           /\ OptionalNumberWithin(args.lat, MinLatitude, MaxLatitude)
           /\ OptionalNumberWithin(args.lon, MinLongitude, MaxLongitude)
      [] tool = "edit_image" -> NonEmptyString(args.text) /\ NonEmptyString(args.path)
      [] tool \in {"analyze_image", "upload_file"} -> NonEmptyString(args.path)
      \* thinking_level: z.enum(['minimal', 'low', 'medium', 'high']).optional()
      [] tool = "search_with_thinking" ->
           /\ NonEmptyString(args.text)
           /\ (IsSet(args.thinkingLevel) => args.thinkingLevel[1] \in ThinkingLevelEnum)
      [] OTHER -> NonEmptyString(args.text)

\* input.model || fallback
OrDefault(s, fallback) == IF s = NoModel THEN fallback ELSE s

ModelFor(tool, args) ==
    CASE tool \in AdapterMethods -> args.model
      [] tool = "brainstorm" -> Gemini3Pro
      [] tool = "code_review" -> Gemini25Pro
      [] tool = "explain" -> Gemini3Flash
      [] tool \in {"generate_image", "edit_image"} -> OrDefault(args.model, DEFAULT_IMAGE_MODEL)
      [] OTHER -> OrDefault(args.model, DEFAULT_MODEL)

(***************************************************************************)
(* Upstream requests built by the adapter methods.  contents lists the     *)
(* parts sent in order: the text prompt, inline media (ref is the index of *)
(* a reference image in the caller's list, 0 for a tool's one source       *)
(* image) or an uploaded file.                                             *)
(***************************************************************************)
TextPart == [kind |-> "text", ref |-> 0]
InlinePart(ref) == [kind |-> "inlineData", ref |-> ref]
FilePart == [kind |-> "fileData", ref |-> 0]
\* contents: prompt
PromptOnly == <<TextPart>>
NoThinkingConfig ==
    [includeThoughts |-> FALSE, thinkingLevel |-> Absent, thinkingBudget |-> Absent]

\* ...(options.aspectRatio && { aspectRatio }), ...(options.resolution &&
\* { imageSize }): a value is passed on as it came, an empty one left out.
ImageConfig(args) ==
    [ aspectRatio |-> IF args.aspectRatio = "" THEN Undefined ELSE args.aspectRatio,
      imageSize |-> IF args.resolution = "" THEN Undefined ELSE args.resolution ]

MkRequest(kind, model, tools, excludeDomains, latLng) ==
    [ kind |-> kind, model |-> model, tools |-> tools,
      excludeDomains |-> excludeDomains, latLng |-> latLng,
      contents |-> PromptOnly, responseModalities |-> {},
      thinkingConfig |-> NoThinkingConfig,
      imageConfig |-> [aspectRatio |-> Undefined, imageSize |-> Undefined] ]
NoRequest == MkRequest("none", NoModel, {}, Absent, Absent)

\* A faulty variant of isImagenModel: the top-tier image model is taken for
\* an Imagen model as well.
isImagenModel_OrPro(model) ==
    StartsWith(model, ImagenPrefix) \/ model = NANO_BANANA_PRO_MODEL

\* model.startsWith('imagen-')
isImagenModel(model) == StartsWith(model, ImagenPrefix)

\* GEMINI_3_MODELS.some(m => model.includes(m))
isGemini3(model) == \E m \in GEMINI_3_MODELS : Includes(model, m)

\* String.prototype.toUpperCase, character by character, on the letters of
\* Basic Latin and Latin-1 Supplement: each lower-case letter becomes its
\* capital, the sharp s becomes "SS", every other character stays.  The
\* capitals of y with diaeresis and of the micro sign lie outside Latin-1
\* and are named by their escapes.
ToUpperCase(s) ==
    LET Lower == <<"a","b","c","d","e","f","g","h","i","j","k","l","m","n","o","p","q",
                "r","s","t","u","v","w","x","y","z","à","á","â","ã","ä","å","æ","ç",
                "è","é","ê","ë","ì","í","î","ï","ð","ñ","ò","ó","ô","õ","ö","ø","ù",
                "ú","û","ü","ý","þ","ÿ","µ">>
        Upper == <<"A","B","C","D","E","F","G","H","I","J","K","L","M","N","O","P","Q",
                "R","S","T","U","V","W","X","Y","Z","À","Á","Â","Ã","Ä","Å","Æ","Ç",
                "È","É","Ê","Ë","Ì","Í","Î","Ï","Ð","Ñ","Ò","Ó","Ô","Õ","Ö","Ø","Ù",
                "Ú","Û","Ü","Ý","Þ","\\u0178","\\u039c">>
        UpperChar(ch) ==
            IF ch = "ß" THEN <<"S", "S">>
            ELSE IF \E i \in DOMAIN Lower : Lower[i] = ch
            THEN <<Upper[CHOOSE i \in DOMAIN Lower : Lower[i] = ch]>>
            ELSE <<ch>>
        up[i \in 0..Len(s)] == IF i = 0 THEN << >> ELSE up[i - 1] \o UpperChar(s[i])
    IN up[Len(s)]

\* A faulty variant of generateWithThinkingRequest: the budget is defaulted
\* with || so that a budget of 0 becomes the default.
generateWithThinkingRequest_OrBudget(model, args) ==
    [MkRequest("generateContent", model, {}, Absent, Absent) EXCEPT
        !.thinkingConfig =
            IF isGemini3(model)
            THEN [includeThoughts |-> TRUE,
                  thinkingLevel |->
                      Some(ToUpperCase(IF ~IsSet(args.thinkingLevel)
                                          \/ args.thinkingLevel[1] = << >>
                                       THEN <<"H","I","G","H">>
                                       ELSE args.thinkingLevel[1])),
                  thinkingBudget |-> Absent]
            ELSE [includeThoughts |-> TRUE,
                  thinkingLevel |-> Absent,
                  thinkingBudget |->
                      IF IsSet(args.thinkingBudget) /\ args.thinkingBudget[1] # 0
                      THEN args.thinkingBudget ELSE Some(DefaultThinkingBudget)]]

\* generateWithThinking: thinkingLevel for a Gemini 3 model, thinkingBudget
\* for any other.
generateWithThinkingRequest(model, args) ==
    [MkRequest("generateContent", model, {}, Absent, Absent) EXCEPT
        !.thinkingConfig =
            IF isGemini3(model)
            THEN [includeThoughts |-> TRUE,
                  thinkingLevel |->
                      Some(ToUpperCase(IF ~IsSet(args.thinkingLevel)
                                          \/ args.thinkingLevel[1] = << >>
                                       THEN <<"H","I","G","H">>
                                       ELSE args.thinkingLevel[1])),
                  thinkingBudget |-> Absent]
            ELSE [includeThoughts |-> TRUE,
                  thinkingLevel |-> Absent,
                  thinkingBudget |->
                      IF IsSet(args.thinkingBudget)
                      THEN args.thinkingBudget ELSE Some(DefaultThinkingBudget)]]

\* A faulty variant of searchWebRequest: the exclusion list is not passed on.
searchWebRequest_NoExclude(model, args) ==
    MkRequest("generateContent", model, {"googleSearch"}, Absent, Absent)

\* searchWeb: googleSearch carries excludeDomains only for a non-empty list.
searchWebRequest(model, args) ==
    MkRequest("generateContent", model, {"googleSearch"},
              IF IsSet(args.excluded) /\ Len(args.excluded[1]) # 0
              THEN args.excluded ELSE Absent,
              Absent)

\* A faulty variant of searchMapsRequest: the coordinates are tested for
\* truthiness, so a coordinate of 0 counts as absent.
searchMapsRequest_Truthy(model, args) ==
    MkRequest("generateContent", model, {"googleMaps"}, Absent,
              IF IsSet(args.lat) /\ IsSet(args.lon) /\ args.lat[1] # 0 /\ args.lon[1] # 0
              THEN Some(<<args.lat[1], args.lon[1]>>) ELSE Absent)

\* searchMaps: the latLng directive is attached when both coordinates are given.
searchMapsRequest(model, args) ==
    MkRequest("generateContent", model, {"googleMaps"}, Absent,
              IF IsSet(args.lat) /\ IsSet(args.lon)
              THEN Some(<<args.lat[1], args.lon[1]>>) ELSE Absent)

\* The options generateImage receives: the generate_image tool passes neither
\* useSearchGrounding nor referenceImages, a direct caller passes its own.
ImageOptions(tool, args) ==
    IF tool = "generateImage"
    THEN [useSearchGrounding |-> args.useSearchGrounding,
          referenceImages |-> args.referenceImages,
          aspectRatio |-> args.aspectRatio, resolution |-> args.resolution]
    ELSE [useSearchGrounding |-> Absent, referenceImages |-> Absent,
          aspectRatio |-> args.aspectRatio, resolution |-> args.resolution]

\* options?.referenceImages?.length
HasReferences(options) ==
    IsSet(options.referenceImages) /\ Len(options.referenceImages[1]) # 0

\* The contents of generateWithGemini: the text prompt, then each reference
\* image in the caller's order.
GeminiImageContents(options) ==
    IF HasReferences(options)
    THEN <<TextPart>> \o [i \in 1..Len(options.referenceImages[1]) |->
                              InlinePart(options.referenceImages[1][i])]
    ELSE PromptOnly

\* A faulty variant of generateWithGeminiRequest: the grounding directive
\* follows the flag alone.
generateWithGeminiRequest_AnyModel(model, options) ==
    [MkRequest("generateContent", model,
               IF options.useSearchGrounding = Some(TRUE) THEN {"googleSearch"} ELSE {},
               Absent, Absent) EXCEPT
        !.contents = GeminiImageContents(options),
        !.responseModalities = {"TEXT", "IMAGE"},
        !.imageConfig = ImageConfig(options)]

\* generateWithGemini: config.tools = [{googleSearch: {}}] only when
\* options.useSearchGrounding && isProModel.
generateWithGeminiRequest(model, options) ==
    [MkRequest("generateContent", model,
               IF options.useSearchGrounding = Some(TRUE) /\ model = NANO_BANANA_PRO_MODEL
               THEN {"googleSearch"} ELSE {},
               Absent, Absent) EXCEPT
        !.contents = GeminiImageContents(options),
        !.responseModalities = {"TEXT", "IMAGE"},
        !.imageConfig = ImageConfig(options)]

\* generateWithImagen: ai.models.generateImages({model, prompt, config}).
generateWithImagenRequest(model, options) ==
    [MkRequest("generateImages", model, {}, Absent, Absent) EXCEPT
        !.imageConfig = ImageConfig(options)]

\* generateImage dispatches on the model id.
generateImageRequest(model, options) ==
    IF isImagenModel(model)
    THEN generateWithImagenRequest(model, options)
    ELSE generateWithGeminiRequest(model, options)

\* The request of the one generation call of each adapter method.
GenerationRequest(tool, args) ==
    LET model == ModelFor(tool, args) IN
    CASE tool = "search_web" -> searchWebRequest(model, args)
      [] tool = "google_maps" -> searchMapsRequest(model, args)
      [] tool \in {"search_with_thinking", "generateWithThinking"} ->
           generateWithThinkingRequest(model, args)
      [] tool = "run_code" -> MkRequest("generateContent", model, {"codeExecution"}, Absent, Absent)
      [] tool = "fetch_url" -> MkRequest("generateContent", model, {"urlContext"}, Absent, Absent)
      [] tool \in {"generate_image", "generateImage"} ->
           generateImageRequest(model, ImageOptions(tool, args))
      [] tool = "edit_image" ->
           [MkRequest("generateContent", model, {}, Absent, Absent) EXCEPT
               !.contents = <<InlinePart(0), TextPart>>,
               !.responseModalities = {"TEXT", "IMAGE"},
               !.imageConfig = ImageConfig(args)]
      [] tool = "analyze_image" ->
           [MkRequest("generateContent", model, {}, Absent, Absent) EXCEPT
               !.contents = <<InlinePart(0), TextPart>>]
      [] tool = "upload_file" ->
           [MkRequest("generateContent", model, {}, Absent, Absent) EXCEPT
               !.contents = <<FilePart, TextPart>>]
      [] OTHER -> MkRequest("generateContent", model, {}, Absent, Absent)

\* A faulty variant of TimeoutMultiplier: the reasoning call waits no longer
\* than a search call.
TimeoutMultiplier_Thinking3(tool, model) ==
    CASE tool \in {"ask", "brainstorm", "code_review", "explain"} -> 1
      [] tool = "analyze_image" -> 2
      [] tool \in {"generate_image", "generateImage"}
           /\ ~isImagenModel(model) /\ model = NANO_BANANA_PRO_MODEL -> 5
      [] OTHER -> 3

\* The factor applied to this.timeout in the setTimeout of each Promise.race.
TimeoutMultiplier(tool, model) ==
    CASE tool \in {"ask", "brainstorm", "code_review", "explain"} -> 1
      [] tool = "analyze_image" -> 2
      [] tool \in {"search_with_thinking", "generateWithThinking"} -> 5
      [] tool \in {"generate_image", "generateImage"}
           /\ ~isImagenModel(model) /\ model = NANO_BANANA_PRO_MODEL -> 5
      [] OTHER -> 3

(***************************************************************************)
(* Upstream responses and their normalisation.  A text is a sequence of    *)
(* tokens <<tag, i>> so that concatenation and order are visible; NoText   *)
(* stands for undefined and << >> for the empty string.  Optional members  *)
(* of a response (candidate parts, generatedImages, groundingMetadata,     *)
(* urlContextMetadata, usageMetadata) are Absent or Some(v).               *)
(***************************************************************************)
Tok(tag, i) == << <<tag, i>> >>
NoText == Tok("undefined", 0)
Answer == Tok("answer", 0)
\* '\n'
Newline == Tok("\\n", 0)

MkPart(thought, text, data, mimeType) ==
    [ thought |-> thought, text |-> text, data |-> data, mimeType |-> mimeType,
      code |-> << >>, output |-> << >> ]
\* The part at position i of a candidate, by what it carries.
PartOf(kind, i) ==
    CASE kind = "text" -> MkPart(FALSE, Tok("t", i), << >>, "")
      [] kind = "thought" -> MkPart(TRUE, Tok("t", i), << >>, "")
      [] kind = "emptyThought" -> MkPart(TRUE, << >>, << >>, "")
      [] kind = "emptyText" -> MkPart(FALSE, << >>, << >>, "")
      [] kind = "image" -> MkPart(FALSE, << >>, Tok("d", i), "")
      [] kind = "textImage" -> MkPart(FALSE, Tok("t", i), Tok("d", i), "image/jpeg")
      [] kind = "code" -> [MkPart(FALSE, << >>, << >>, "") EXCEPT !.code = Tok("c", i)]
      [] kind = "output" -> [MkPart(FALSE, << >>, << >>, "") EXCEPT !.output = Tok("o", i)]
      [] kind = "codeText" ->
           [MkPart(FALSE, Tok("t", i), << >>, "") EXCEPT !.code = Tok("c", i)]
      [] OTHER -> MkPart(FALSE, << >>, << >>, "")
\* Every list of at most MaxParts parts of the given kinds.
PartLists(kinds) ==
    UNION { { [i \in 1..n |-> PartOf(ks[i], i)] : ks \in [1..n -> kinds] } :
              n \in 0..MaxParts }

MkResponse(text, parts, generatedImages) ==
    [ text |-> text, parts |-> parts, generatedImages |-> generatedImages,
      groundingMetadata |-> Absent, urlMetadata |-> Absent,
      thoughtsTokenCount |-> Absent ]
\* A response with no candidates, no parts and no metadata.
EmptyResponse == MkResponse(NoText, Absent, Absent)
\* A candidate with the given parts.
PartsResponse(parts) == MkResponse(Answer, Some(parts), Absent)

MkResult(text, thinking, images, fileName) ==
    [ shape |-> "none", text |-> text, thinking |-> thinking, images |-> images,
      fileName |-> fileName, code |-> NoText, output |-> NoText,
      citations |-> << >>, places |-> << >>, searchQueries |-> << >>,
      urlMetadata |-> << >>, thinkingTokens |-> Absent ]
NoResult == MkResult(NoText, NoText, << >>, Undefined)

WebChunk(title, uri) == [kind |-> "web", title |-> title, uri |-> uri]
MapsChunk(title, uri, placeId, text) ==
    [kind |-> "maps", title |-> title, uri |-> uri, placeId |-> placeId, text |-> text]
GroundingMetadatas ==
    { Absent,
      Some([groundingChunks |-> Absent, webSearchQueries |-> Absent]),
      Some([groundingChunks |->
                Some(<<WebChunk("Docs", "https://a.example"), WebChunk("", ""),
                       MapsChunk("Cafe", "https://maps.example/1", "P1", "about Cafe"),
                       MapsChunk(Undefined, Undefined, Undefined, Undefined)>>),
            webSearchQueries |-> Some(<<"q1", "q2">>)]) }
UrlMetadatas ==
    { Absent, Some(<< >>),
      Some(<<[retrievedUrl |-> "https://a.example",
              urlRetrievalStatus |-> "URL_RETRIEVAL_STATUS_SUCCESS"],
             [retrievedUrl |-> "", urlRetrievalStatus |-> ""]>>) }
ThoughtsTokenCounts == {Absent, Some(0), Some(5)}

TextResponses == {EmptyResponse, PartsResponse(<<PartOf("text", 1)>>)}
GroundedResponses ==
    {EmptyResponse} \cup
    {[PartsResponse(<<PartOf("text", 1)>>) EXCEPT !.groundingMetadata = g] :
        g \in GroundingMetadatas}
UrlResponses ==
    {EmptyResponse} \cup
    {[PartsResponse(<<PartOf("text", 1)>>) EXCEPT !.urlMetadata = u] : u \in UrlMetadatas}
ThinkingResponses ==
    {EmptyResponse} \cup
    {[PartsResponse(ps) EXCEPT !.thoughtsTokenCount = n] :
        ps \in PartLists({"text", "thought", "emptyThought"}), n \in ThoughtsTokenCounts}
\* The parts of a code-execution answer: code, output, text, code together
\* with text, and the two that carry none of the three: inline media (a
\* plot) and an empty text.
CodeResponses ==
    {EmptyResponse} \cup
    {PartsResponse(ps) :
        ps \in PartLists({"code", "output", "text", "codeText", "image", "emptyText"})}
GenerateContentResponses ==
    {EmptyResponse} \cup
    {PartsResponse(ps) : ps \in PartLists({"text", "thought", "image", "textImage"})}
GenerateImagesResponses ==
    { EmptyResponse,
      MkResponse(NoText, Absent, Some(<< >>)),
      MkResponse(NoText, Absent,
                 Some(<<[imageBytes |-> Tok("d", 1), mimeType |-> ""],
                        [imageBytes |-> << >>, mimeType |-> "image/jpeg"]>>)) }
\* What the upstream service may answer to a request.
ResponsesFor(request) ==
    CASE request.kind = "generateImages" -> GenerateImagesResponses
      [] request.responseModalities # {} -> GenerateContentResponses
      [] request.thinkingConfig.includeThoughts -> ThinkingResponses
      [] "codeExecution" \in request.tools -> CodeResponses
      [] "urlContext" \in request.tools -> UrlResponses
      [] request.tools \cap {"googleSearch", "googleMaps"} # {} -> GroundedResponses
      [] OTHER -> TextResponses

\* response.candidates?.[0]?.content?.parts ?? []
PartsOrEmpty(response) == IF IsSet(response.parts) THEN response.parts[1] ELSE << >>
\* A faulty variant of TextOrEmpty: an undefined response.text is passed on.
TextOrEmpty_Raw(response) == response.text
\* response.text ?? ''
TextOrEmpty(response) == IF response.text = NoText THEN << >> ELSE response.text
\* (result.text || '') + part.text
Append2(acc, text) == (IF acc = NoText THEN << >> ELSE acc) \o text
\* x || 'image/png'
MimeOrPng(m) == IF m = "" THEN "image/png" ELSE m
\* x || fallback on a string
StringOr(x, fallback) == IF x = "" THEN fallback ELSE x

RECURSIVE extractImageParts(_, _)
extractImageParts(parts, result) ==
    IF parts = << >> THEN result
    ELSE LET part == Head(parts)
             r1 == IF part.thought /\ part.text # << >>
                   THEN [result EXCEPT !.thinking = Append2(@, part.text)]
                   ELSE IF part.text # << >>
                   THEN [result EXCEPT !.text = Append2(@, part.text)]
                   ELSE result
             r2 == IF part.data # << >>
                   THEN [r1 EXCEPT !.images =
                            Append(@, [data |-> part.data, mimeType |-> MimeOrPng(part.mimeType)])]
                   ELSE r1
         IN extractImageParts(Tail(parts), r2)

extractImageResponse(response) ==
    extractImageParts(PartsOrEmpty(response),
                      [NoResult EXCEPT !.shape = "GenerateImageResponse"])

RECURSIVE imagenImages(_)
imagenImages(generated) ==
    IF generated = << >> THEN << >>
    ELSE LET img == Head(generated)
         IN (IF img.imageBytes # << >>
             THEN <<[data |-> img.imageBytes, mimeType |-> MimeOrPng(img.mimeType)]>>
             ELSE << >>) \o imagenImages(Tail(generated))

\* generateWithImagen returns { images } and nothing else.
imagenResult(response) ==
    [NoResult EXCEPT !.shape = "GenerateImageResponse",
                     !.images = IF IsSet(response.generatedImages)
                                THEN imagenImages(response.generatedImages[1])
                                ELSE << >>]

\* A faulty variant of ThinkingStep: the thought flag is ignored.
ThinkingStep_IgnoreFlag(result, part) ==
    IF part.text # << >>
    THEN [result EXCEPT !.text = @ \o part.text]
    ELSE result

\* The body of the loop of extractThinkingResponse.
ThinkingStep(result, part) ==
    IF part.thought /\ part.text # << >>
    THEN [result EXCEPT !.thinking = @ \o part.text]
    ELSE IF part.text # << >>
    THEN [result EXCEPT !.text = @ \o part.text]
    ELSE result

extractThinkingResponse(response) ==
    LET parts == PartsOrEmpty(response)
        init == [NoResult EXCEPT !.shape = "ThinkingResponse",
                                 !.text = << >>, !.thinking = << >>]
        loop[i \in 0..Len(parts)] ==
            IF i = 0 THEN init ELSE ThinkingStep(loop[i - 1], parts[i])
    IN [loop[Len(parts)] EXCEPT !.thinkingTokens = response.thoughtsTokenCount]

\* A faulty variant of CodeStep: the three tests are independent, so a part
\* with code and text feeds both fields.
CodeStep_Independent(result, part) ==
    LET r1 == IF part.code # << >>
              THEN [result EXCEPT !.code =
                       @ \o (IF @ # << >> THEN Newline ELSE << >>) \o part.code]
              ELSE result
        r2 == IF part.output # << >>
              THEN [r1 EXCEPT !.output =
                       @ \o (IF @ # << >> THEN Newline ELSE << >>) \o part.output]
              ELSE r1
    IN IF part.text # << >> THEN [r2 EXCEPT !.text = @ \o part.text] ELSE r2

\* The body of the loop of extractCodeExecutionResponse.
CodeStep(result, part) ==
    IF part.code # << >>
    THEN [result EXCEPT !.code = @ \o (IF @ # << >> THEN Newline ELSE << >>) \o part.code]
    ELSE IF part.output # << >>
    THEN [result EXCEPT !.output = @ \o (IF @ # << >> THEN Newline ELSE << >>) \o part.output]
    ELSE IF part.text # << >>
    THEN [result EXCEPT !.text = @ \o part.text]
    ELSE result

extractCodeExecutionResponse(response) ==
    LET parts == PartsOrEmpty(response)
        init == [NoResult EXCEPT !.shape = "CodeExecutionResponse",
                                 !.text = << >>, !.code = << >>, !.output = << >>]
        loop[i \in 0..Len(parts)] ==
            IF i = 0 THEN init ELSE CodeStep(loop[i - 1], parts[i])
    IN loop[Len(parts)]

\* The chunks of kind of the grounding metadata, in order.
ChunksOf(response, kind) ==
    IF IsSet(response.groundingMetadata) /\ IsSet(response.groundingMetadata[1].groundingChunks)
    THEN SelectSeq(response.groundingMetadata[1].groundingChunks[1],
                   LAMBDA chunk : chunk.kind = kind)
    ELSE << >>
\* searchQueries.push(...gm.webSearchQueries)
QueriesOf(response) ==
    IF IsSet(response.groundingMetadata) /\ IsSet(response.groundingMetadata[1].webSearchQueries)
    THEN response.groundingMetadata[1].webSearchQueries[1]
    ELSE << >>

extractSearchResponse(response) ==
    LET web == ChunksOf(response, "web") IN
    [NoResult EXCEPT
        !.shape = "SearchWebResponse",
        !.text = TextOrEmpty(response),
        !.citations = [i \in 1..Len(web) |->
                          [title |-> StringOr(web[i].title, "Untitled"), uri |-> web[i].uri]],
        !.searchQueries = QueriesOf(response)]

extractMapsResponse(response) ==
    LET maps == ChunksOf(response, "maps") IN
    [NoResult EXCEPT
        !.shape = "MapsResponse",
        !.text = TextOrEmpty(response),
        !.places = [i \in 1..Len(maps) |->
                       [title |-> StringOr(IF maps[i].title = Undefined THEN ""
                                           ELSE maps[i].title, ""),
                        uri |-> StringOr(IF maps[i].uri = Undefined THEN ""
                                         ELSE maps[i].uri, ""),
                        placeId |-> maps[i].placeId, text |-> maps[i].text]],
        !.searchQueries = QueriesOf(response)]

extractUrlContextResponse(response) ==
    LET metas == IF IsSet(response.urlMetadata) THEN response.urlMetadata[1] ELSE << >> IN
    [NoResult EXCEPT
        !.shape = "UrlContextResponse",
        !.text = TextOrEmpty(response),
        !.urlMetadata = [i \in 1..Len(metas) |->
                            [url |-> metas[i].retrievedUrl,
                             status |-> StringOr(metas[i].urlRetrievalStatus, "UNKNOWN")]]]

\* The value an adapter method returns for a resolved generation call.
AdapterValue(tool, request, response, uploadResult, file) ==
    CASE tool \in {"generate_image", "generateImage"} /\ request.kind = "generateImages" ->
           imagenResult(response)
      [] tool \in {"generate_image", "generateImage", "edit_image"}
           /\ request.kind # "generateImages" ->
           extractImageResponse(response)
      [] tool = "search_web" -> extractSearchResponse(response)
      [] tool = "google_maps" -> extractMapsResponse(response)
      [] tool \in {"search_with_thinking", "generateWithThinking"} ->
           extractThinkingResponse(response)
      [] tool = "run_code" -> extractCodeExecutionResponse(response)
      [] tool = "fetch_url" -> extractUrlContextResponse(response)
      [] tool = "upload_file" ->
           [NoResult EXCEPT !.shape = "FileUploadResponse",
                            !.text = TextOrEmpty(response),
                            !.fileName = uploadResult.name]
      [] OTHER -> [NoResult EXCEPT !.shape = "string", !.text = TextOrEmpty(response)]

(***************************************************************************)
(* Tool responses.                                                         *)
(***************************************************************************)
NoFailure == Failure("none", "", << >>)
MkToolResponse(kind, isError, failure, value) ==
    [kind |-> kind, isError |-> isError, failure |-> failure, value |-> value]
NoResponse == MkToolResponse("none", FALSE, NoFailure, NoResult)

\* What the handler returns once the adapter method has returned value; a
\* direct caller of the adapter has no tool response.  value holds the
\* members of the result the handler renders into the content: the image
\* tools show the first image and the text but not the thinking,
\* search_with_thinking shows the token count only when it is not 0
\* (if (result.thinkingTokens)), google_maps shows the text and the title,
\* uri and text of the places but neither their placeId nor the search
\* queries.
Respond(tool, args, value) ==
    IF tool \in AdapterMethods
    THEN NoResponse
    ELSE IF tool \in {"generate_image", "edit_image"} /\ Len(value.images) = 0
    THEN MkToolResponse("noImage", TRUE, NoFailure, NoResult)
    \* saveImage throws (fs.writeFileSync) and the handler's catch answers.
    ELSE IF tool \in {"generate_image", "edit_image"} /\ args.savePath = "/data/a.png/x.png"
    THEN MkToolResponse("saveError", TRUE,
                        Failure("none", "ENOTDIR: not a directory, open", << >>), NoResult)
    ELSE IF tool \in {"generate_image", "edit_image"}
    THEN MkToolResponse("ok", FALSE, NoFailure,
                        [value EXCEPT !.images = <<@[1]>>, !.thinking = NoText])
    ELSE IF tool = "search_with_thinking"
    THEN MkToolResponse("ok", FALSE, NoFailure,
                        [value EXCEPT !.thinkingTokens =
                                          IF IsSet(@) /\ @[1] # 0 THEN @ ELSE Absent])
    ELSE IF tool = "google_maps"
    THEN MkToolResponse("ok", FALSE, NoFailure,
                        [value EXCEPT !.searchQueries = << >>,
                                      !.places = [i \in 1..Len(@) |->
                                                     [@[i] EXCEPT !.placeId = Undefined]]])
    ELSE MkToolResponse("ok", FALSE, NoFailure, value)

\* getAutoSavePath(config.outputDir, prefix): path.resolve of the directory
\* and prefix-<timestamp>.png.
AutoSavePath(tool) ==
    (IF config.outputDir = "./generated-images"
     THEN "<cwd>/generated-images" ELSE config.outputDir)
    \o (IF tool = "generate_image"
        THEN "/generated-<timestamp>.png"
        ELSE "/edited-<timestamp>.png")

\* A faulty variant of SavedFiles: every image of the result is written.
SavedFiles_All(tool, args, value) ==
    IF tool \in {"generate_image", "edit_image"} /\ args.savePath # "/data/a.png/x.png"
    THEN [i \in 1..Len(value.images) |->
             [path |-> IF args.savePath \in {Undefined, ""}
                       THEN AutoSavePath(tool) ELSE args.savePath,
              data |-> value.images[i].data]]
    ELSE << >>

\* The files the handler writes once the adapter method has returned value:
\* saveImage(result.images[0].data, input.save_path || getAutoSavePath(...));
\* nothing is written when fs.writeFileSync throws.
SavedFiles(tool, args, value) ==
    IF tool \in {"generate_image", "edit_image"} /\ Len(value.images) # 0
          /\ args.savePath # "/data/a.png/x.png"
    THEN <<[path |-> IF args.savePath \in {Undefined, ""}
                     THEN AutoSavePath(tool) ELSE args.savePath,
            data |-> value.images[1].data]>>
    ELSE << >>

(***************************************************************************)
(* State.  calls maps each tool invocation to its record:                  *)
(*   pc        where the handler stands: idle, awaitUpload, sleeping,      *)
(*             awaitPoll, awaitRace or done                                *)
(*   op        the upstream operation issued last and whether it is still  *)
(*             pending; issued lists the kinds of all operations issued    *)
(*   timer     the deadline timer of the call's Promise.race               *)
(*   race      the Promise.race: none, pending or settled (settledBy)      *)
(*   outcome   what the adapter method returned or threw                   *)
(*   response  what the tools/call handler returned                        *)
(*   caught    the error caught by the adapter method's catch              *)
(*   late      how the upstream operation settled after the race was lost  *)
(*   received  the upstream response the race handed to the method         *)
(*   fileRead  whether the handler has read the file at the local path     *)
(*   written   the files the handler has written to disk                   *)
(*   uploadResult, file, waited: the locals of uploadAndQuery; observed    *)
(*             lists the file states it has seen, the upload's first       *)
(* env is process.env as loadConfig reads it, config what loadConfig        *)
(* returned or threw, and timeout the base timeout of the client built     *)
(* from it (this.timeout).                                                 *)
(***************************************************************************)
vars == <<calls, timeout, env, config>>

NoOp == [kind |-> "none", status |-> "none", raced |-> FALSE, request |-> NoRequest]
NoTimer == [state |-> "none", delay |-> Some(0)]
NoOutcome == [kind |-> "none", failure |-> NoFailure, value |-> NoResult]
NoFile == [name |-> Undefined, state |-> Undefined]
NoError == MkError(FALSE, << >>, NoStatus, NoCode)

IdleCall ==
    [ pc |-> "idle", tool |-> "none", args |-> DefaultArgs,
      op |-> NoOp, issued |-> << >>, timer |-> NoTimer,
      race |-> "none", settledBy |-> "none", late |-> "none",
      caught |-> NoError, outcome |-> NoOutcome, response |-> NoResponse,
      uploadResult |-> NoFile, file |-> NoFile, waited |-> 0, observed |-> << >>,
      received |-> Absent, fileRead |-> FALSE, written |-> << >> ]

\* The invocations of the main specification: one tool call.
CallIds == {1}

\* The environments the server runs under, those loadConfig does not throw
\* on: an API key, and either nothing else set; or another default model,
\* another output directory and another base timeout; or a GEMINI_TIMEOUT
\* that parseInt turns into NaN.
ServerEnvs ==
    { [apiKey |-> Some(<<"k">>), defaultModel |-> Absent, outputDir |-> Absent,
       timeoutStr |-> Absent],
      [apiKey |-> Some(<<"k">>), defaultModel |-> Some(Gemini25Pro),
       outputDir |-> Some("/out"), timeoutStr |-> Some(ToDigits(OtherTimeout))],
      [apiKey |-> Some(<<"k">>), defaultModel |-> Absent, outputDir |-> Absent,
       timeoutStr |-> Some(<<"a", "b", "c">>)] }

\* main(): config = loadConfig(); client = createGeminiClient(config).
Init ==
    /\ calls = [c \in CallIds |-> IdleCall]
    /\ env \in ServerEnvs
    /\ config = loadConfig(env)
    /\ timeout = config.timeout

(***************************************************************************)
(* Steps of a call record.                                                 *)
(***************************************************************************)
\* A faulty variant of Fail: the handler has no catch, the failure of the
\* adapter leaves it as an exception and no response is returned.
Fail_Uncaught(call, error) ==
    LET failure == handleError(error) IN
    [call EXCEPT !.pc = "done",
                 !.caught = error,
                 !.outcome = [kind |-> "fail", failure |-> failure, value |-> NoResult]]

\* catch (error) { throw this.handleError(error) } and the handler's catch.
Fail(call, error) ==
    LET failure == handleError(error) IN
    [call EXCEPT !.pc = "done",
                 !.caught = error,
                 !.outcome = [kind |-> "fail", failure |-> failure, value |-> NoResult],
                 !.response = IF call.tool \in AdapterMethods
                              THEN NoResponse
                              ELSE MkToolResponse("adapterError", TRUE, failure, NoResult)]

\* The adapter method returns value and the handler builds its response.
Succeed(call, value) ==
    [call EXCEPT !.pc = "done",
                 !.outcome = [kind |-> "ok", failure |-> NoFailure, value |-> value],
                 !.response = Respond(call.tool, call.args, value),
                 !.written = SavedFiles(call.tool, call.args, value)]

\* Promise.race([generate..., new Promise(setTimeout(reject, timeout * k))]).
\* The delay is Some(ms), or Absent for NaN (NaN * k); the timer is armed
\* either way.
IssueRaced(call, base) ==
    LET request == GenerationRequest(call.tool, call.args) IN
    [call EXCEPT !.pc = "awaitRace",
                 !.op = [kind |-> request.kind, status |-> "pending", raced |-> TRUE,
                         request |-> request],
                 !.issued = Append(@, request.kind),
                 !.timer = [state |-> "pending",
                            delay |-> IF IsSet(base)
                                      THEN Some(base[1] * TimeoutMultiplier(call.tool, request.model))
                                      ELSE Absent],
                 !.race = "pending"]

\* An awaited upstream call with no race around it.
IssueUnraced(call, kind, pc) ==
    [call EXCEPT !.pc = pc,
                 !.op = [kind |-> kind, status |-> "pending", raced |-> FALSE,
                         request |-> MkRequest(kind, NoModel, {}, Absent, Absent)],
                 !.issued = Append(@, kind)]

\* A faulty variant of AfterPolling: only the failed state stops the query.
AfterPolling_OnlyFailed(call, base) ==
    IF call.file.state = "FAILED" THEN Fail(call, NewError(ProcessingFailedMsg))
    ELSE IssueRaced(call, base)

\* uploadAndQuery after the poll loop: the state checks and the generation call.
AfterPolling(call, base) ==
    IF call.file.state = "FAILED" THEN Fail(call, NewError(ProcessingFailedMsg))
    ELSE IF call.file.state # "ACTIVE" THEN Fail(call, NewError(ProcessingTimedOutMsg))
    ELSE IssueRaced(call, base)

\* A faulty variant of PollLoop: it polls on until the file has failed.
PollLoop_UntilFailed(call, base) ==
    IF call.file.state # "FAILED" /\ call.waited < maxWait
    THEN [call EXCEPT !.pc = "sleeping"]
    ELSE AfterPolling(call, base)

\* A faulty variant of PollLoop: the wait is compared with <=, which allows
\* one poll more.
PollLoop_OneMore(call, base) ==
    IF call.file.state = "PROCESSING" /\ call.waited <= maxWait
    THEN [call EXCEPT !.pc = "sleeping"]
    ELSE AfterPolling(call, base)

\* The test of the poll loop: sleep again or leave the loop.
PollLoop(call, base) ==
    IF call.file.state = "PROCESSING" /\ call.waited < maxWait
    THEN [call EXCEPT !.pc = "sleeping"]
    ELSE AfterPolling(call, base)

(***************************************************************************)
(* Actions.                                                                *)
(***************************************************************************)
\* schema.parse(args) throws: the catch of the handler answers.
RejectInvalid(c) ==
    /\ calls[c].pc = "idle"
    /\ \E tool \in Tools : \E args \in ToolInputs(tool) :
         /\ ~Validate(tool, args)
         /\ calls' = [calls EXCEPT ![c] =
               [@ EXCEPT !.pc = "done", !.tool = tool, !.args = args,
                         !.response = MkToolResponse("validation", TRUE, NoFailure, NoResult)]]
    /\ UNCHANGED <<timeout, env, config>>

\* default: throw new Error(`Unknown tool: ${name}`).
RejectUnknownTool(c) ==
    /\ calls[c].pc = "idle"
    /\ \E tool \in UnknownTools :
         calls' = [calls EXCEPT ![c] =
               [@ EXCEPT !.pc = "done", !.tool = tool,
                         !.response = MkToolResponse("unknownTool", TRUE, NoFailure, NoResult)]]
    /\ UNCHANGED <<timeout, env, config>>

\* edit_image, analyze_image, upload_file: the local path does not exist.
RejectNotFound(c) ==
    /\ calls[c].pc = "idle"
    /\ \E tool \in PathTools : \E args \in ToolInputs(tool) :
         /\ Validate(tool, args)
         /\ ~args.exists
         /\ calls' = [calls EXCEPT ![c] =
               [@ EXCEPT !.pc = "done", !.tool = tool, !.args = args,
                         !.response = MkToolResponse("notFound", TRUE, NoFailure, NoResult)]]
    /\ UNCHANGED <<timeout, env, config>>

\* A faulty variant of CallTool: the local path is read without the
\* existence check.
CallTool_Unchecked(c) ==
    /\ calls[c].pc = "idle"
    /\ \E tool \in Tools \ {"upload_file"} : \E args \in ToolInputs(tool) :
         /\ Validate(tool, args)
         /\ calls' = [calls EXCEPT ![c] =
               IF tool \in PathTools /\ args.exists /\ args.path = "/dirpath"
               THEN [@ EXCEPT !.pc = "done", !.tool = tool, !.args = args,
                              !.fileRead = TRUE,
                              !.response =
                                  MkToolResponse("readError", TRUE,
                                      Failure("none", "EISDIR: illegal operation on a directory, read", << >>),
                                      NoResult)]
               ELSE IssueRaced([@ EXCEPT !.tool = tool, !.args = args,
                                         !.fileRead = tool \in PathTools], timeout)]
    /\ UNCHANGED <<timeout, env, config>>

\* A valid call of a tool whose adapter method issues one raced generation
\* call; edit_image and analyze_image read the local file first
\* (fs.readFileSync, fileRead), and when the read throws, as it does on a
\* directory, the handler's catch answers and no adapter method runs.
CallTool(c) ==
    /\ calls[c].pc = "idle"
    /\ \E tool \in Tools \ {"upload_file"} : \E args \in ToolInputs(tool) :
         /\ Validate(tool, args)
         /\ tool \in PathTools => args.exists
         /\ calls' = [calls EXCEPT ![c] =
               IF tool \in PathTools /\ args.path = "/dirpath"
               THEN [@ EXCEPT !.pc = "done", !.tool = tool, !.args = args,
                              !.fileRead = TRUE,
                              !.response =
                                  MkToolResponse("readError", TRUE,
                                      Failure("none", "EISDIR: illegal operation on a directory, read", << >>),
                                      NoResult)]
               ELSE IssueRaced([@ EXCEPT !.tool = tool, !.args = args,
                                         !.fileRead = tool \in PathTools], timeout)]
    /\ UNCHANGED <<timeout, env, config>>

\* A caller other than the tools/call handler invokes generateImage or
\* generateWithThinking with options of its own.
CallAdapter(c) ==
    /\ calls[c].pc = "idle"
    /\ \E method \in AdapterMethods : \E args \in ToolInputs(method) :
         calls' = [calls EXCEPT ![c] =
               IssueRaced([@ EXCEPT !.tool = method, !.args = args], timeout)]
    /\ UNCHANGED <<timeout, env, config>>

\* upload_file: uploadAndQuery awaits this.ai.files.upload.
CallUpload(c) ==
    /\ calls[c].pc = "idle"
    /\ \E args \in ToolInputs("upload_file") :
         /\ Validate("upload_file", args)
         /\ args.exists
         /\ calls' = [calls EXCEPT ![c] =
               IssueUnraced([@ EXCEPT !.tool = "upload_file", !.args = args],
                            "files.upload", "awaitUpload")]
    /\ UNCHANGED <<timeout, env, config>>

FileNames == {Undefined, "", "files/abc"}
FileStates == {Undefined, "PROCESSING", "ACTIVE", "FAILED"}

\* files.upload resolves: check the name, then enter the poll loop.
UploadResolves(c) ==
    /\ calls[c].pc = "awaitUpload"
    /\ \E name \in FileNames : \E state \in FileStates :
         LET call == [calls[c] EXCEPT !.op.status = "resolved",
                                      !.uploadResult = [name |-> name, state |-> state],
                                      !.observed = <<state>>] IN
         calls' = [calls EXCEPT ![c] =
            IF name = Undefined \/ name = ""
            THEN Fail(call, NewError(NoFileNameMsg))
            ELSE PollLoop([call EXCEPT !.file = call.uploadResult], timeout)]
    /\ UNCHANGED <<timeout, env, config>>

\* The 2000 ms sleep of the poll loop ends: count it and ask for the file.
SleepElapses(c) ==
    /\ calls[c].pc = "sleeping"
    /\ calls' = [calls EXCEPT ![c] =
          IssueUnraced([@ EXCEPT !.waited = @ + pollInterval], "files.get", "awaitPoll")]
    /\ UNCHANGED <<timeout, env, config>>

\* files.get resolves: the loop test runs on the new status.
PollResolves(c) ==
    /\ calls[c].pc = "awaitPoll"
    /\ \E name \in FileNames : \E state \in FileStates :
         calls' = [calls EXCEPT ![c] =
            PollLoop([@ EXCEPT !.op.status = "resolved",
                               !.file = [name |-> name, state |-> state],
                               !.observed = Append(@, state)], timeout)]
    /\ UNCHANGED <<timeout, env, config>>

\* files.upload or files.get rejects: the catch of uploadAndQuery classifies it.
UnracedRejects(c) ==
    /\ calls[c].pc \in {"awaitUpload", "awaitPoll"}
    /\ \E error \in UpstreamErrors :
         calls' = [calls EXCEPT ![c] = Fail([@ EXCEPT !.op.status = "rejected"], error)]
    /\ UNCHANGED <<timeout, env, config>>

\* A faulty variant of UpstreamResolves: a result that arrives after the
\* deadline still becomes the outcome of the call.
UpstreamResolves_Late(c) ==
    /\ calls[c].op.raced
    /\ calls[c].op.status = "pending"
    /\ \E response \in ResponsesFor(calls[c].op.request) :
         LET call == [calls[c] EXCEPT !.op.status = "resolved"] IN
         calls' = [calls EXCEPT ![c] =
            Succeed([call EXCEPT !.race = "settled", !.settledBy = "upstream",
                                 !.received = Some(response)],
                    AdapterValue(call.tool, call.op.request, response,
                                 call.uploadResult, call.file))]
    /\ UNCHANGED <<timeout, env, config>>

\* The raced generation call resolves.  The race takes it only if still pending.
UpstreamResolves(c) ==
    /\ calls[c].op.raced
    /\ calls[c].op.status = "pending"
    /\ \E response \in ResponsesFor(calls[c].op.request) :
         LET call == [calls[c] EXCEPT !.op.status = "resolved"] IN
         calls' = [calls EXCEPT ![c] =
            IF call.race = "pending"
            THEN Succeed([call EXCEPT !.race = "settled", !.settledBy = "upstream",
                                      !.received = Some(response)],
                         AdapterValue(call.tool, call.op.request, response,
                                      call.uploadResult, call.file))
            ELSE [call EXCEPT !.late = "resolved"]]
    /\ UNCHANGED <<timeout, env, config>>

\* A faulty variant of UpstreamRejects: a rejected generation call is
\* issued once more.
UpstreamRejects_Retry(c) ==
    /\ calls[c].op.raced
    /\ calls[c].op.status = "pending"
    /\ \E error \in UpstreamErrors :
         LET call == [calls[c] EXCEPT !.op.status = "rejected"] IN
         calls' = [calls EXCEPT ![c] =
            IF call.race = "pending" /\ Len(call.issued) < 2
            THEN [call EXCEPT !.op.status = "pending",
                              !.issued = Append(@, call.op.kind)]
            ELSE IF call.race = "pending"
            THEN Fail([call EXCEPT !.race = "settled", !.settledBy = "upstream"], error)
            ELSE [call EXCEPT !.late = "rejected"]]
    /\ UNCHANGED <<timeout, env, config>>

\* The raced generation call rejects.
UpstreamRejects(c) ==
    /\ calls[c].op.raced
    /\ calls[c].op.status = "pending"
    /\ \E error \in UpstreamErrors :
         LET call == [calls[c] EXCEPT !.op.status = "rejected"] IN
         calls' = [calls EXCEPT ![c] =
            IF call.race = "pending"
            THEN Fail([call EXCEPT !.race = "settled", !.settledBy = "upstream"], error)
            ELSE [call EXCEPT !.late = "rejected"]]
    /\ UNCHANGED <<timeout, env, config>>

\* A faulty variant of TimerFires: the adapter keeps one deadline for all its
\* calls, so a timer that fires rejects every race still pending.
TimerFires_Shared(c) ==
    /\ calls[c].timer.state = "pending"
    /\ calls' = [d \in DOMAIN calls |->
          LET call == IF d = c THEN [calls[d] EXCEPT !.timer.state = "fired"] ELSE calls[d] IN
          IF call.race = "pending"
          THEN Fail([call EXCEPT !.race = "settled", !.settledBy = "timer"],
                    NewError(RequestTimeoutMsg))
          ELSE call]
    /\ UNCHANGED <<timeout, env, config>>

\* The deadline timer fires: reject(new Error('Request timeout')).
TimerFires(c) ==
    /\ calls[c].timer.state = "pending"
    /\ LET call == [calls[c] EXCEPT !.timer.state = "fired"] IN
       calls' = [calls EXCEPT ![c] =
          IF call.race = "pending"
          THEN Fail([call EXCEPT !.race = "settled", !.settledBy = "timer"],
                    NewError(RequestTimeoutMsg))
          ELSE call]
    /\ UNCHANGED <<timeout, env, config>>

\* loadConfig() at startup, before any client exists.
LoadConfig ==
    /\ config.status = "none"
    /\ config' = loadConfig(env)
    /\ UNCHANGED <<calls, timeout, env>>

\* The specification of loadConfig alone: every environment of Envs, no
\* client and no call.
InitConfig ==
    /\ calls = << >>
    /\ timeout = Absent
    /\ env \in Envs
    /\ config = [status |-> "none", timeout |-> Absent, defaultModel |-> NoModel,
                 outputDir |-> "", error |-> ""]

NextConfig ==
    \/ LoadConfig

SpecConfig == InitConfig /\ [][NextConfig]_vars

\* Two tool calls handled at once by one server and one client: a call of
\* ask or analyze_image each.
InitConc ==
    /\ calls = [c \in {1, 2} |-> IdleCall]
    /\ env \in ServerEnvs
    /\ config = loadConfig(env)
    /\ timeout = config.timeout

\* CallTool for the calls of the concurrent specification: the prompt "hi"
\* on the default model, the image an existing regular file.
ConcCall(c) ==
    /\ calls[c].pc = "idle"
    /\ \E tool \in {"ask", "analyze_image"} : \E args \in ToolInputs(tool) :
         /\ args.text = "hi" /\ args.model = NoModel
         /\ Validate(tool, args)
         /\ tool \in PathTools => (args.exists /\ args.path = "/data/a.png")
         /\ calls' = [calls EXCEPT ![c] =
               IssueRaced([@ EXCEPT !.tool = tool, !.args = args,
                                    !.fileRead = tool \in PathTools], timeout)]
    /\ UNCHANGED <<timeout, env, config>>

NextConc ==
    \/ \E c \in DOMAIN calls : ConcCall(c)
    \/ \E c \in DOMAIN calls : UpstreamResolves(c)
    \/ \E c \in DOMAIN calls : UpstreamRejects(c)
    \/ \E c \in DOMAIN calls : TimerFires(c)

SpecConc == InitConc /\ [][NextConc]_vars

Next ==
    \/ \E c \in DOMAIN calls : RejectInvalid(c)
    \/ \E c \in DOMAIN calls : RejectUnknownTool(c)
    \/ \E c \in DOMAIN calls : RejectNotFound(c)
    \/ \E c \in DOMAIN calls : CallTool(c)
    \/ \E c \in DOMAIN calls : CallAdapter(c)
    \/ \E c \in DOMAIN calls : CallUpload(c)
    \/ \E c \in DOMAIN calls : UploadResolves(c)
    \/ \E c \in DOMAIN calls : SleepElapses(c)
    \/ \E c \in DOMAIN calls : PollResolves(c)
    \/ \E c \in DOMAIN calls : UnracedRejects(c)
    \/ \E c \in DOMAIN calls : UpstreamResolves(c)
    \/ \E c \in DOMAIN calls : UpstreamRejects(c)
    \/ \E c \in DOMAIN calls : TimerFires(c)

Spec == Init /\ [][Next]_vars

(***************************************************************************)
(* Properties.                                                             *)
(***************************************************************************)
Started(c) == calls[c].tool # "none"
Count(seq, x) == Cardinality({i \in 1..Len(seq) : seq[i] = x})
Categories ==
    {"Timeout", "AuthRejected", "RateLimited", "ContentFiltered", "NetworkUnreachable",
     "Unclassified"}

\* The category the taxonomy assigns to a failure signal: the first test that
\* matches, in the order Timeout, AuthRejected, RateLimited, ContentFiltered,
\* NetworkUnreachable, Unclassified.
FirstMatch(e) ==
    LET tests ==
          << <<"Timeout", e.hasMsg /\ e.msg = RequestTimeoutMsg>>,
             <<"AuthRejected", e.status \in {401, 403}>>,
             <<"RateLimited", e.status = 429>>,
             <<"ContentFiltered",
               e.hasMsg /\ (Includes(e.msg, SAFETY) \/ Includes(e.msg, blocked))>>,
             <<"NetworkUnreachable",
               e.code \in {"ENOTFOUND", "ECONNREFUSED"} \/ (e.hasMsg /\ Includes(e.msg, fetch))>>,
             <<"Unclassified", TRUE>> >>
        first == CHOOSE i \in 1..6 : tests[i][2] /\ \A j \in 1..(i - 1) : ~tests[j][2]
    IN tests[first][1]

\* C1: every failed adapter call carries exactly one of the six categories, the
\* first in the fixed order whose test the caught error matches; an error that
\* matches the Timeout test is Timeout whatever status or code it also carries.
C1_FirstMatchWins ==
    \A c \in DOMAIN calls :
        calls[c].outcome.kind = "fail" =>
            /\ calls[c].outcome.failure.category \in Categories
            /\ calls[c].outcome.failure.category = FirstMatch(calls[c].caught)
            /\ (calls[c].caught.hasMsg /\ calls[c].caught.msg = RequestTimeoutMsg
                   => calls[c].outcome.failure.category = "Timeout")

\* A failure that matches the Timeout test and also carries an auth status and a
\* network error code has been classified.
C1_Witness ==
    \E c \in DOMAIN calls :
        /\ calls[c].outcome.kind = "fail"
        /\ calls[c].caught.msg = RequestTimeoutMsg
        /\ calls[c].caught.status = 401
        /\ calls[c].caught.code = "ENOTFOUND"
        /\ calls[c].outcome.failure.category = "Timeout"

\* C2: when the deadline timer of a race fires while the upstream call is
\* still pending, the caller gets the Timeout failure in that step; from then
\* on no step, the late resolve or reject of the upstream call included,
\* changes the outcome or the response of the call.
C2_TimeoutWinsRace ==
    [][\A c \in DOMAIN calls :
         /\ (calls[c].race = "pending" /\ calls[c].op.status = "pending"
                /\ calls[c].timer.state = "pending" /\ calls'[c].timer.state = "fired") =>
               /\ calls'[c].pc = "done"
               /\ calls'[c].settledBy = "timer"
               /\ calls'[c].outcome.kind = "fail"
               /\ calls'[c].outcome.failure.category = "Timeout"
               /\ (calls[c].tool \in Tools =>
                      /\ calls'[c].response.isError
                      /\ calls'[c].response.failure.category = "Timeout")
         /\ calls[c].settledBy = "timer" =>
               /\ calls'[c].settledBy = "timer"
               /\ calls'[c].pc = "done"
               /\ calls'[c].outcome = calls[c].outcome
               /\ calls'[c].response = calls[c].response]_vars

\* The upstream call resolved after the deadline fired.
C2_Witness ==
    \E c \in DOMAIN calls :
        /\ calls[c].settledBy = "timer"
        /\ calls[c].late = "resolved"
        /\ calls[c].op.status = "resolved"
        /\ calls[c].outcome.failure.category = "Timeout"

\* C3: after an adapter method has returned or thrown, no timer created by
\* that call is still pending.
C3_NoTimerLeftPending ==
    \A c \in DOMAIN calls :
        calls[c].pc = "done" => calls[c].timer.state # "pending"

\* C4: every pending upstream operation is raced against a deadline timer of
\* its call, the upload and the status polls of uploadAndQuery included.
C4_EveryOperationRaced ==
    \A c \in DOMAIN calls :
        calls[c].op.status = "pending" => calls[c].op.raced

\* C5: in uploadAndQuery, the statuses processing (upload), processing (first
\* poll), active (second poll) lead to the generation call after exactly 2 poll
\* intervals of 2000 ms and exactly 2 status polls, and the call succeeds when
\* the generation call resolves first.
C5_TwoPollsThenQuery ==
    \A c \in DOMAIN calls :
        (calls[c].tool = "upload_file"
            /\ calls[c].observed = <<"PROCESSING", "PROCESSING", "ACTIVE">>) =>
            /\ calls[c].waited = 2 * 2000
            /\ calls[c].issued = <<"files.upload", "files.get", "files.get", "generateContent">>
            /\ calls[c].pc \in {"awaitRace", "done"}
            /\ (calls[c].settledBy = "upstream" /\ calls[c].op.status = "resolved"
                  => calls[c].outcome.kind = "ok" /\ ~calls[c].response.isError)

\* The upload call has succeeded after the statuses processing, processing, active.
C5_Witness ==
    \E c \in DOMAIN calls :
        /\ calls[c].tool = "upload_file"
        /\ calls[c].observed = <<"PROCESSING", "PROCESSING", "ACTIVE">>
        /\ calls[c].pc = "done"
        /\ calls[c].outcome.kind = "ok"

\* Every status uploadAndQuery has seen is processing and the maximum wait has elapsed.
StuckProcessing(c) ==
    /\ calls[c].tool = "upload_file"
    /\ calls[c].waited >= 60000
    /\ calls[c].op.status = "resolved"
    /\ \A i \in 1..Len(calls[c].observed) : calls[c].observed[i] = "PROCESSING"

\* C6: a file still processing when the maximum wait of 60 seconds has elapsed
\* makes uploadAndQuery fail with the Timeout category, and no generation call
\* is issued.
C6_StuckIsTimeout ==
    \A c \in DOMAIN calls :
        StuckProcessing(c) =>
            /\ calls[c].outcome.kind = "fail"
            /\ calls[c].outcome.failure.category = "Timeout"
            /\ Count(calls[c].issued, "generateContent") = 0

\* C7: uploadAndQuery uploads, then polls, then queries: no name from the
\* upload fails the call with no poll and no generation call; a last observed
\* status of failed fails it with no generation call; the generation call is
\* issued only when the last observed status is active; on success fileName is
\* the name the upload assigned.
C7_UploadPollQuery ==
    \A c \in DOMAIN calls :
        (calls[c].tool = "upload_file" /\ calls[c].issued # << >>) =>
            LET call == calls[c]
                seen == call.observed
                last == IF seen = << >> THEN Undefined ELSE seen[Len(seen)]
            IN /\ call.issued[1] = "files.upload"
               /\ (seen # << >> /\ call.uploadResult.name \in {Undefined, ""}) =>
                      /\ call.outcome.kind = "fail"
                      /\ call.issued = <<"files.upload">>
               /\ (last = "FAILED") =>
                      /\ call.outcome.kind = "fail"
                      /\ Count(call.issued, "generateContent") = 0
               /\ Count(call.issued, "generateContent") > 0 =>
                      /\ last = "ACTIVE"
                      /\ call.issued[Len(call.issued)] = "generateContent"
                      /\ Count(call.issued, "generateContent") = 1
               /\ call.outcome.kind = "ok" =>
                      /\ call.outcome.value.fileName = call.uploadResult.name
                      /\ call.response.value.fileName = call.uploadResult.name

\* An upload whose polled file record carries another name than the upload
\* assigned has succeeded.
C7_Witness ==
    \E c \in DOMAIN calls :
        /\ calls[c].tool = "upload_file"
        /\ calls[c].outcome.kind = "ok"
        /\ Len(calls[c].observed) > 1
        /\ calls[c].file.name # calls[c].uploadResult.name
        /\ calls[c].outcome.value.fileName = "files/abc"

\* The input-shape violations: an empty required text, a urls list of 0 or
\* more than 20 entries, a latitude outside [-90, 90], a longitude outside
\* [-180, 180], a thinking level that is none of the four levels.
ShapeViolation(tool, args) ==
    \/ tool \in RequiredTextTools /\ args.text = ""
    \/ tool = "fetch_url" /\ IsSet(args.urls)
          /\ (Len(args.urls[1]) = 0 \/ Len(args.urls[1]) > 20)
    \/ tool = "google_maps" /\ IsSet(args.lat) /\ (args.lat[1] < -90 \/ args.lat[1] > 90)
    \/ tool = "google_maps" /\ IsSet(args.lon) /\ (args.lon[1] < -180 \/ args.lon[1] > 180)
    \/ tool = "search_with_thinking"
          /\ args.thinkingLevel # Absent
          /\ args.thinkingLevel[1] \notin
                { <<"m","i","n","i","m","a","l">>, <<"l","o","w">>,
                  <<"m","e","d","i","u","m">>, <<"h","i","g","h">> }

\* C8: a tool call with an input-shape violation is answered with a validation
\* failure, no upstream call is issued for it, and the failure is none of the
\* six upstream categories.
C8_ValidationBeforeNetwork ==
    \A c \in DOMAIN calls :
        (Started(c) /\ calls[c].tool \in Tools /\ ShapeViolation(calls[c].tool, calls[c].args)) =>
            /\ calls[c].pc = "done"
            /\ calls[c].response.kind = "validation"
            /\ calls[c].response.isError
            /\ calls[c].issued = << >>
            /\ calls[c].timer.state = "none"
            /\ calls[c].outcome.kind = "none"
            /\ calls[c].response.failure.category \notin Categories

\* A google_maps call with a valid query and a longitude of 181 has been rejected.
C8_Witness ==
    \E c \in DOMAIN calls :
        /\ calls[c].tool = "google_maps"
        /\ calls[c].args.text = "hi"
        /\ calls[c].args.lat = Some(0)
        /\ calls[c].args.lon = Some(181)
        /\ calls[c].response.kind = "validation"

\* C9: search_web rejects an excluded-domains list of 6 entries before any
\* upstream call; it accepts a list of 5 entries and passes it on in the
\* googleSearch configuration of the upstream request.
C9_ExcludedDomainsLimit ==
    \A c \in DOMAIN calls :
        (calls[c].tool = "search_web" /\ calls[c].args.text = "hi"
            /\ IsSet(calls[c].args.excluded)) =>
            LET domains == calls[c].args.excluded[1] IN
            /\ Len(domains) = 6 =>
                  /\ calls[c].response.kind = "validation"
                  /\ calls[c].issued = << >>
            /\ Len(domains) = 5 =>
                  /\ calls[c].response.kind # "validation"
                  /\ calls[c].issued = <<"generateContent">>
                  /\ "googleSearch" \in calls[c].op.request.tools
                  /\ calls[c].op.request.excludeDomains = Some(domains)

\* A search with 5 excluded domains has been answered without an error.
C9_Witness ==
    \E c \in DOMAIN calls :
        /\ calls[c].tool = "search_web"
        /\ IsSet(calls[c].args.excluded)
        /\ Len(calls[c].args.excluded[1]) = 5
        /\ calls[c].response.kind = "ok"

\* C10: a google_maps request that sets exactly one of latitude and longitude
\* is rejected at input validation and issues no upstream call.
C10_BothOrNeither ==
    \A c \in DOMAIN calls :
        (calls[c].tool = "google_maps"
            /\ IsSet(calls[c].args.lat) # IsSet(calls[c].args.lon)) =>
            /\ calls[c].response.kind = "validation"
            /\ calls[c].issued = << >>

\* The calls that went through generateWithThinking, from the tool or from a
\* direct caller.
ThinkingTools == {"search_with_thinking", "generateWithThinking"}
ThinkingCall(c) == calls[c].tool \in ThinkingTools /\ calls[c].issued # << >>
UpperLevels ==
    { <<"M","I","N","I","M","A","L">>, <<"L","O","W">>,
      <<"M","E","D","I","U","M">>, <<"H","I","G","H">> }
\* A lower-case letter and its capital.
CapitalPairs ==
    { <<"a","A">>, <<"b","B">>, <<"c","C">>, <<"d","D">>, <<"e","E">>,
      <<"f","F">>, <<"g","G">>, <<"h","H">>, <<"i","I">>, <<"j","J">>,
      <<"k","K">>, <<"l","L">>, <<"m","M">>, <<"n","N">>, <<"o","O">>,
      <<"p","P">>, <<"q","Q">>, <<"r","R">>, <<"s","S">>, <<"t","T">>,
      <<"u","U">>, <<"v","V">>, <<"w","W">>, <<"x","X">>, <<"y","Y">>,
      <<"z","Z">> }
\* out is the word with every lower-case letter replaced by its capital.
InCapitals(word, out) ==
    /\ Len(out) = Len(word)
    /\ \A i \in 1..Len(word) :
          \/ <<word[i], out[i]>> \in CapitalPairs
          \/ out[i] = word[i] /\ ~\E pair \in CapitalPairs : pair[1] = word[i]

\* C11: generateWithThinking sends exactly one thinking control, chosen by the
\* model id and not by the options given: a model whose id contains a Gemini 3
\* model name gets a thinking level and no budget; any other model gets no
\* level and the budget, 8192 when the caller gave none and the caller's value
\* otherwise, 0 included.  The level sent is the caller's level in capitals,
\* whether or not it is one of the four levels of the tool, and HIGH when
\* the caller gave none or an empty one.
C11_OneThinkingControl ==
    \A c \in DOMAIN calls :
        ThinkingCall(c) =>
            LET request == calls[c].op.request
                cfg == request.thinkingConfig
                level == calls[c].args.thinkingLevel
                given == calls[c].args.thinkingBudget
            IN IF \E m \in GEMINI_3_MODELS : Includes(request.model, m)
               THEN /\ cfg.thinkingBudget = Absent
                    /\ cfg.thinkingLevel # Absent
                    /\ level \in {Absent, Some(<< >>)} =>
                          cfg.thinkingLevel = Some(<<"H","I","G","H">>)
                    /\ level \notin {Absent, Some(<< >>)} =>
                          InCapitals(level[1], cfg.thinkingLevel[1])
                    /\ calls[c].tool = "search_with_thinking" =>
                          cfg.thinkingLevel[1] \in UpperLevels
               ELSE /\ cfg.thinkingLevel = Absent
                    /\ given = Absent => cfg.thinkingBudget = Some(8192)
                    /\ given # Absent => cfg.thinkingBudget = given

\* A direct call of generateWithThinking on gemini-3-flash-preview with the
\* level extreme and the budget 0 has sent the level EXTREME and no budget.
C11_Witness ==
    \E c \in DOMAIN calls :
        /\ ThinkingCall(c)
        /\ calls[c].tool = "generateWithThinking"
        /\ calls[c].op.request.model = Gemini3Flash
        /\ calls[c].args.thinkingLevel = Some(<<"e","x","t","r","e","m","e">>)
        /\ calls[c].args.thinkingBudget = Some(0)
        /\ calls[c].op.request.thinkingConfig.thinkingLevel = Some(<<"E","X","T","R","E","M","E">>)
        /\ calls[c].op.request.thinkingConfig.thinkingBudget = Absent

\* The texts of a list of parts, concatenated in order.
RECURSIVE ConcatTexts(_)
ConcatTexts(parts) ==
    IF parts = << >> THEN << >> ELSE Head(parts).text \o ConcatTexts(Tail(parts))

\* The calls whose adapter method returned a value for a received response.
Returned(c) == calls[c].outcome.kind = "ok" /\ IsSet(calls[c].received)
ReceivedParts(c) ==
    IF IsSet(calls[c].received[1].parts) THEN calls[c].received[1].parts[1] ELSE << >>

\* C12: the reasoning field of a thinking result is the concatenation, in
\* upstream order, of the texts of the parts flagged thought, and the answer
\* field the concatenation of the texts of the unflagged parts, for every
\* list of parts; no text appears in the other field.
C12_ThoughtsApartFromAnswer ==
    \A c \in DOMAIN calls :
        (calls[c].tool \in ThinkingTools /\ Returned(c)) =>
            LET parts == ReceivedParts(c)
                value == calls[c].outcome.value
            IN /\ value.thinking = ConcatTexts(SelectSeq(parts, LAMBDA p : p.thought))
               /\ value.text = ConcatTexts(SelectSeq(parts, LAMBDA p : ~p.thought))
               /\ \A i \in 1..Len(parts) : \A k \in 1..Len(parts[i].text) :
                     /\ parts[i].thought =>
                           \A j \in 1..Len(value.text) : value.text[j] # parts[i].text[k]
                     /\ ~parts[i].thought =>
                           \A j \in 1..Len(value.thinking) :
                               value.thinking[j] # parts[i].text[k]

\* The parts thought, text, thought have been normalised.
C12_Witness ==
    \E c \in DOMAIN calls :
        /\ calls[c].tool = "search_with_thinking"
        /\ Returned(c)
        /\ ReceivedParts(c) = <<PartOf("thought", 1), PartOf("text", 2), PartOf("thought", 3)>>
        /\ calls[c].outcome.value.thinking = Tok("t", 1) \o Tok("t", 3)
        /\ calls[c].outcome.value.text = Tok("t", 2)

\* The positions of the upstream parts whose tokens a text holds, in order.
PositionsIn(text) ==
    LET kept == SelectSeq(text, LAMBDA token : token[2] # 0)
    IN [k \in 1..Len(kept) |-> kept[k][2]]
ImagePositions(images) == [k \in 1..Len(images) |-> images[k].data[1][2]]
\* The positions each bucket of a result was filled from.
Buckets(value) ==
    [ text |-> PositionsIn(value.text), thinking |-> PositionsIn(value.thinking),
      code |-> PositionsIn(value.code), output |-> PositionsIn(value.output),
      images |-> ImagePositions(value.images) ]
Increasing(seq) == \A j, k \in 1..Len(seq) : j < k => seq[j] < seq[k]
NormalizedTools ==
    {"search_with_thinking", "generateWithThinking", "run_code", "generate_image",
     "edit_image", "generateImage"}

\* C13: in the thinking, code-execution and image normalisers every upstream
\* part feeds at most one bucket of the result (text, thinking, images, code,
\* output), a part with both text and inline data included, and each bucket
\* keeps the upstream order.
C13_OneBucketPerFragment ==
    \A c \in DOMAIN calls :
        (calls[c].tool \in NormalizedTools /\ Returned(c)) =>
            LET buckets == Buckets(calls[c].outcome.value) IN
            /\ \A i \in 1..Len(ReceivedParts(c)) :
                  Cardinality({b \in DOMAIN buckets :
                                  \E k \in 1..Len(buckets[b]) : buckets[b][k] = i}) <= 1
            /\ \A b \in DOMAIN buckets : Increasing(buckets[b])

\* The empty result of each capability.
EmptyValue(c) ==
    LET value == calls[c].outcome.value IN
    /\ value.images = << >> /\ value.citations = << >> /\ value.places = << >>
    /\ value.searchQueries = << >> /\ value.urlMetadata = << >>
    /\ value.thinkingTokens = Absent
    /\ IF value.shape = "GenerateImageResponse"
       THEN value.text = NoText /\ value.thinking = NoText
       ELSE value.text = << >>
    /\ value.shape = "ThinkingResponse" => value.thinking = << >>
    /\ value.shape = "CodeExecutionResponse" => value.code = << >> /\ value.output = << >>
ReceivedEmpty(c) ==
    /\ calls[c].settledBy = "upstream"
    /\ calls[c].received = Some(EmptyResponse)
ImageTools == {"generate_image", "edit_image"}

\* C14 as stated: an upstream response with no candidates, no parts and no
\* metadata yields a successful empty result from the adapter method and a
\* successful response from the tool call, for every capability.
C14_EmptyIsSuccess ==
    \A c \in DOMAIN calls :
        ReceivedEmpty(c) =>
            /\ calls[c].outcome.kind = "ok"
            /\ EmptyValue(c)
            /\ calls[c].tool \in Tools => ~calls[c].response.isError

\* C14, amended: every adapter method returns the empty result of its shape
\* for such a response; the tool call answers without error for every tool
\* but generate_image and edit_image, which answer isError because no image
\* was generated.
C14_EmptyIsSuccessButImages ==
    \A c \in DOMAIN calls :
        ReceivedEmpty(c) =>
            /\ calls[c].outcome.kind = "ok"
            /\ calls[c].outcome.value.shape # "none"
            /\ EmptyValue(c)
            /\ calls[c].tool \in Tools \ ImageTools =>
                  /\ ~calls[c].response.isError
                  /\ calls[c].response.value = calls[c].outcome.value
            /\ calls[c].tool \in ImageTools =>
                  /\ calls[c].response.isError
                  /\ calls[c].response.kind = "noImage"

\* A web search has been answered from an empty upstream response.
C14_Witness ==
    \E c \in DOMAIN calls :
        /\ calls[c].tool = "search_web"
        /\ ReceivedEmpty(c)
        /\ calls[c].response.kind = "ok"
        /\ calls[c].response.value.text = << >>

\* The calls that went through generateImage.
ImageCall(c) == calls[c].tool \in {"generate_image", "generateImage"} /\ calls[c].issued # << >>

\* C15: generateImage picks the endpoint from the model id alone: an id that
\* starts with imagen- goes to generateImages, any other to generateContent
\* with the response modalities TEXT and IMAGE; one endpoint is called per
\* invocation, and a generateImages result carries neither text nor thinking.
C15_EndpointByModel ==
    \A c \in DOMAIN calls :
        ImageCall(c) =>
            LET request == calls[c].op.request IN
            /\ Len(calls[c].issued) = 1
            /\ IF StartsWith(request.model, ImagenPrefix)
               THEN /\ calls[c].issued = <<"generateImages">>
                    /\ request.kind = "generateImages"
                    /\ calls[c].outcome.kind = "ok" =>
                          /\ calls[c].outcome.value.text = NoText
                          /\ calls[c].outcome.value.thinking = NoText
               ELSE /\ calls[c].issued = <<"generateContent">>
                    /\ request.kind = "generateContent"
                    /\ request.responseModalities = {"TEXT", "IMAGE"}

\* An Imagen model has returned one image, and no text.
C15_Witness ==
    \E c \in DOMAIN calls :
        /\ ImageCall(c)
        /\ calls[c].op.request.model = Imagen4
        /\ calls[c].outcome.kind = "ok"
        /\ Len(calls[c].outcome.value.images) = 1
        /\ calls[c].outcome.value.text = NoText

\* The caller of generateImage set useSearchGrounding.
GroundingAsked(c) == ImageOptions(calls[c].tool, calls[c].args).useSearchGrounding = Some(TRUE)

\* C16: the request of an image generation carries the googleSearch directive
\* exactly when the caller set the grounding flag and the model is the
\* top-tier image model; with the flag set on another model the request is
\* still issued, without the directive.
C16_GroundingOnlyOnProModel ==
    \A c \in DOMAIN calls :
        (calls[c].tool \in {"generate_image", "generateImage"} /\ Started(c)) =>
            LET request == calls[c].op.request IN
            /\ "googleSearch" \in request.tools <=>
                  (GroundingAsked(c) /\ request.model = NANO_BANANA_PRO_MODEL)
            /\ (GroundingAsked(c) /\ calls[c].args.model # NANO_BANANA_PRO_MODEL) =>
                  /\ calls[c].issued # << >>
                  /\ calls[c].response.kind # "validation"
                  /\ request.tools = {}

\* An image has been generated on gemini-2.5-flash-image with the flag set
\* and no directive sent.
C16_Witness ==
    \E c \in DOMAIN calls :
        /\ calls[c].tool = "generateImage"
        /\ GroundingAsked(c)
        /\ calls[c].op.request.model = Gemini25FlashImage
        /\ calls[c].op.request.tools = {}
        /\ calls[c].outcome.kind = "ok"
        /\ Len(calls[c].outcome.value.images) > 0

\* C17: with reference images on the general endpoint the request contents
\* are the reference parts, in the caller's order, followed by the text
\* prompt part.
C17_ReferencesBeforePrompt ==
    \A c \in DOMAIN calls :
        (ImageCall(c) /\ calls[c].op.request.kind = "generateContent"
            /\ HasReferences(ImageOptions(calls[c].tool, calls[c].args))) =>
            LET refs == calls[c].args.referenceImages[1]
                contents == calls[c].op.request.contents
            IN /\ Len(contents) = Len(refs) + 1
               /\ \A i \in 1..Len(refs) : contents[i] = [kind |-> "inlineData", ref |-> refs[i]]
               /\ contents[Len(refs) + 1].kind = "text"

\* The failure message holds the message of the error that was caught.
Echoes(c) ==
    (calls[c].caught.hasMsg /\ calls[c].caught.msg # << >>)
        => calls[c].outcome.failure.arg = calls[c].caught.msg
Failed(c) == calls[c].outcome.kind = "fail"

\* C18 as stated: the failure message is a fixed sentence for Timeout,
\* AuthRejected, RateLimited, ContentFiltered and NetworkUnreachable, and
\* only an Unclassified failure holds the upstream message.
C18_OnlyUnclassifiedEchoes ==
    \A c \in DOMAIN calls :
        Failed(c) =>
            IF calls[c].outcome.failure.category = "Unclassified"
            THEN Echoes(c)
            ELSE calls[c].outcome.failure.arg = << >>

\* C19: no adapter method other than uploadAndQuery issues more than one
\* upstream call; once a call has ended, by a result, an upstream failure or
\* a timeout, it issues no further upstream call and its outcome, one result
\* or one failure, does not change.
C19_NoRetry ==
    [][\A c \in DOMAIN calls :
         /\ calls'[c].tool # "upload_file" => Len(calls'[c].issued) <= 1
         /\ calls[c].pc = "done" =>
               /\ calls'[c].issued = calls[c].issued
               /\ calls'[c].outcome = calls[c].outcome
               /\ calls'[c].pc = "done"
         /\ (calls'[c].pc = "done" /\ calls'[c].issued # << >>) =>
               \/ /\ calls'[c].outcome.kind = "ok"
                  /\ calls'[c].outcome.failure = NoFailure
               \/ /\ calls'[c].outcome.kind = "fail"
                  /\ calls'[c].outcome.value = NoResult
                  /\ calls'[c].outcome.failure.category \in Categories]_vars

\* A call has failed on an upstream rejection after exactly one upstream call.
C19_Witness ==
    \E c \in DOMAIN calls :
        /\ calls[c].tool = "ask"
        /\ calls[c].pc = "done"
        /\ calls[c].settledBy = "upstream"
        /\ Failed(c)
        /\ calls[c].issued = <<"generateContent">>

PlainTools == {"ask", "brainstorm", "code_review", "explain"}
SearchTools == {"search_web", "google_maps"}

\* C20: the delay of a call's deadline timer is the configured base timeout
\* for plain generation and the base timeout times an integer from 2 to 5 for
\* every other capability, 3 for search and 5 for reasoning.  A base timeout
\* of NaN gives NaN for every multiplier.
C20_DeadlineFromBase ==
    \A c \in DOMAIN calls :
        calls[c].timer.state # "none" =>
            LET delay == calls[c].timer.delay
                tool == calls[c].tool
                Times(k) == IF timeout = Absent THEN Absent ELSE Some(timeout[1] * k)
            IN /\ tool \in PlainTools => delay = Times(1)
               /\ tool \notin PlainTools => \E k \in 2..5 : delay = Times(k)
               /\ tool \in SearchTools => delay = Times(3)
               /\ tool \in ThinkingTools => delay = Times(5)

\* A reasoning call under a base timeout of 30000 ms has a deadline of 150000 ms.
C20_Witness ==
    \E c \in DOMAIN calls :
        /\ calls[c].tool = "search_with_thinking"
        /\ timeout = Some(OtherTimeout)
        /\ calls[c].timer.delay = Some(5 * OtherTimeout)

\* The tokens the tool descriptions of generate_image and edit_image list.
DocumentedAspectRatios == {"1:1", "16:9", "9:16", "4:3", "3:4"}
DocumentedResolutions == {"1K", "2K", "4K"}

\* C22: for generate_image and edit_image, a call whose aspect ratio or
\* resolution is outside the documented sets is rejected at validation with
\* no upstream call, so the values in an upstream request are in the sets.
C22_ImageEnumsEnforced ==
    \A c \in DOMAIN calls :
        (calls[c].tool \in ImageTools /\ Started(c)) =>
            LET args == calls[c].args
                cfg == calls[c].op.request.imageConfig
            IN /\ (args.aspectRatio \notin DocumentedAspectRatios \cup {Undefined}
                     \/ args.resolution \notin DocumentedResolutions \cup {Undefined}) =>
                     /\ calls[c].response.kind = "validation"
                     /\ calls[c].issued = << >>
               /\ calls[c].issued # << >> =>
                     /\ cfg.aspectRatio \in DocumentedAspectRatios \cup {Undefined}
                     /\ cfg.imageSize \in DocumentedResolutions \cup {Undefined}

\* The blocks of a list of texts joined by newlines.
RECURSIVE JoinLines(_)
JoinLines(blocks) ==
    IF blocks = << >> THEN << >>
    ELSE IF Len(blocks) = 1 THEN Head(blocks)
    ELSE Head(blocks) \o Newline \o JoinLines(Tail(blocks))
\* What a part counts as: code before output before text.
CountsAs(part) ==
    IF part.code # << >> THEN "code"
    ELSE IF part.output # << >> THEN "output"
    ELSE IF part.text # << >> THEN "text"
    ELSE "none"
PartsCounting(parts, as) == SelectSeq(parts, LAMBDA p : CountsAs(p) = as)

\* The fields of a result that part i of the answer was counted in.
BucketsOfPart(value, i) ==
    {b \in DOMAIN Buckets(value) :
        \E k \in 1..Len(Buckets(value)[b]) : Buckets(value)[b][k] = i}

\* C23 as stated: the code-execution result counts every part as exactly one
\* of code, output or text: code is the code blocks joined by newlines in
\* upstream order, output the output blocks joined by newlines in upstream
\* order, text the texts concatenated in upstream order, and every part
\* feeds one field and no part feeds two.
C23_CodeOutputText ==
    \A c \in DOMAIN calls :
        (calls[c].tool = "run_code" /\ Returned(c)) =>
            LET parts == ReceivedParts(c)
                value == calls[c].outcome.value
                codes == PartsCounting(parts, "code")
                outputs == PartsCounting(parts, "output")
            IN /\ value.code = JoinLines([i \in 1..Len(codes) |-> codes[i].code])
               /\ value.output = JoinLines([i \in 1..Len(outputs) |-> outputs[i].output])
               /\ value.text = ConcatTexts(PartsCounting(parts, "text"))
               /\ \A i \in 1..Len(parts) : Cardinality(BucketsOfPart(value, i)) = 1

\* C23, amended: the code-execution result counts every part as at most one
\* of code, output or text: a part that carries code, output or text feeds
\* exactly one field, the first of the three it carries, and a part that
\* carries none of them (inline media, an empty text) feeds no field; code
\* is the code blocks joined by newlines in upstream order, output the
\* output blocks joined by newlines in upstream order, text the texts
\* concatenated in upstream order.
C23_AtMostOneOfCodeOutputText ==
    \A c \in DOMAIN calls :
        (calls[c].tool = "run_code" /\ Returned(c)) =>
            LET parts == ReceivedParts(c)
                value == calls[c].outcome.value
                codes == PartsCounting(parts, "code")
                outputs == PartsCounting(parts, "output")
            IN /\ value.code = JoinLines([i \in 1..Len(codes) |-> codes[i].code])
               /\ value.output = JoinLines([i \in 1..Len(outputs) |-> outputs[i].output])
               /\ value.text = ConcatTexts(PartsCounting(parts, "text"))
               /\ \A i \in 1..Len(parts) :
                     BucketsOfPart(value, i) =
                         IF CountsAs(parts[i]) = "none" THEN {} ELSE {CountsAs(parts[i])}

\* The parts code-with-text, inline media, code, output have been normalised:
\* two code blocks joined by a newline, one output block, no text, and the
\* inline media in no field.
C23_Witness ==
    \E c \in DOMAIN calls :
        /\ calls[c].tool = "run_code"
        /\ Returned(c)
        /\ ReceivedParts(c) = <<PartOf("codeText", 1), PartOf("image", 2), PartOf("code", 3)>>
        /\ calls[c].outcome.value.code = Tok("c", 1) \o Newline \o Tok("c", 3)
        /\ calls[c].outcome.value.output = << >>
        /\ calls[c].outcome.value.text = << >>
        /\ BucketsOfPart(calls[c].outcome.value, 2) = {}

\* C24: the searchMaps request carries the latLng directive with the caller's
\* latitude and longitude when both are given, 0 included, carries none when
\* neither is given, and never carries coordinates the caller did not give.
C24_LatLngDirective ==
    \A c \in DOMAIN calls :
        (calls[c].tool = "google_maps" /\ calls[c].issued # << >>) =>
            LET args == calls[c].args
                latLng == calls[c].op.request.latLng
            IN /\ (args.lat # Absent /\ args.lon # Absent) =>
                     latLng = Some(<<args.lat[1], args.lon[1]>>)
               /\ (args.lat = Absent /\ args.lon = Absent) => latLng = Absent
               /\ latLng # Absent => (args.lat # Absent /\ args.lon # Absent)
               /\ "googleMaps" \in calls[c].op.request.tools

\* A maps search at latitude 0 and longitude 0 has sent both zeros.
C24_Witness ==
    \E c \in DOMAIN calls :
        /\ calls[c].tool = "google_maps"
        /\ calls[c].args.lat = Some(0)
        /\ calls[c].args.lon = Some(0)
        /\ calls[c].op.request.latLng = Some(<<0, 0>>)

Polls(call) == Count(call.issued, "files.get")

\* C25: the poll loop of uploadAndQuery is sequential and bounded: a poll is
\* issued only from the 2000 ms wait that follows a settled upload or poll,
\* the wait counted so far is 2000 ms per poll, no more than 30 polls are
\* issued, and every status seen before the last one is processing.
C25_PollLoopBounded ==
    [][\A c \in DOMAIN calls :
         /\ Polls(calls'[c]) <= 30
         /\ calls'[c].waited = 2000 * Polls(calls'[c])
         /\ Polls(calls'[c]) > Polls(calls[c]) =>
               /\ Polls(calls'[c]) = Polls(calls[c]) + 1
               /\ calls[c].pc = "sleeping"
               /\ calls[c].op.status = "resolved"
               /\ calls[c].file.state = "PROCESSING"
               /\ calls'[c].op.status = "pending"
         /\ \A i \in 1..(Len(calls'[c].observed) - 1) :
               calls'[c].observed[i] = "PROCESSING"]_vars

\* The thirtieth poll still said processing and the call has failed.
C25_Witness ==
    \E c \in DOMAIN calls :
        /\ Polls(calls[c]) = 30
        /\ calls[c].waited = 60000
        /\ calls[c].file.state = "PROCESSING"
        /\ calls[c].pc = "done"
        /\ Failed(c)

ErrorKinds ==
    {"validation", "unknownTool", "notFound", "readError", "adapterError", "noImage",
     "saveError"}

\* C26: every request the tools/call handler has finished with has a
\* response: isError with the failure message for a validation failure, an
\* unknown tool and every failure of the adapter, and no isError for a call
\* that succeeded.
C26_HandlerAlwaysAnswers ==
    \A c \in DOMAIN calls :
        (calls[c].pc = "done" /\ calls[c].tool \in Tools \cup UnknownTools) =>
            LET response == calls[c].response IN
            /\ response.kind \in ErrorKinds \cup {"ok"}
            /\ response.isError <=> response.kind \in ErrorKinds
            /\ Failed(c) =>
                  /\ response.kind = "adapterError"
                  /\ response.isError
                  /\ response.failure = calls[c].outcome.failure
            /\ calls[c].tool \in UnknownTools => response.kind = "unknownTool"
            /\ ~Validate(calls[c].tool, calls[c].args) /\ calls[c].tool \in Tools =>
                  response.kind = "validation"
            /\ response.kind = "ok" =>
                  /\ calls[c].outcome.kind = "ok"
                  /\ calls[c].tool \notin ImageTools =>
                        response.value.text = calls[c].outcome.value.text

\* A call has been answered with the failure of the adapter.
C26_Witness ==
    \E c \in DOMAIN calls :
        /\ calls[c].pc = "done"
        /\ calls[c].tool = "run_code"
        /\ Failed(c)
        /\ calls[c].response.isError
        /\ calls[c].response.failure.category = "RateLimited"

\* C28: a failure is classified Timeout only when the deadline timer of the
\* call settled the race; a rejection of the upstream operation is never
\* reported as Timeout.
C28_TimeoutOnlyFromTimer ==
    \A c \in DOMAIN calls :
        (Failed(c) /\ calls[c].outcome.failure.category = "Timeout") =>
            /\ calls[c].settledBy = "timer"
            /\ calls[c].timer.state = "fired"

\* C30: for edit_image, analyze_image and upload_file with valid arguments
\* and a local path that does not exist, the call is answered with the
\* not-found error, nothing is read or uploaded and no adapter method runs;
\* arguments that fail validation are answered with the validation failure
\* whether the path exists or not.
C30_NotFoundBeforeAdapter ==
    \A c \in DOMAIN calls :
        (calls[c].tool \in PathTools /\ Started(c)) =>
            /\ (Validate(calls[c].tool, calls[c].args) /\ ~calls[c].args.exists) =>
                  /\ calls[c].pc = "done"
                  /\ calls[c].response.kind = "notFound"
                  /\ calls[c].response.isError
                  /\ calls[c].issued = << >>
                  /\ calls[c].outcome.kind = "none"
                  /\ calls[c].timer.state = "none"
                  /\ ~calls[c].fileRead
            /\ ~Validate(calls[c].tool, calls[c].args) =>
                  /\ calls[c].response.kind = "validation"
                  /\ ~calls[c].fileRead
            /\ calls[c].fileRead => calls[c].args.exists

\* An upload_file call with a path that does not exist has been answered.
C30_Witness ==
    \E c \in DOMAIN calls :
        /\ calls[c].tool = "upload_file"
        /\ calls[c].args.path = "/data/a.png"
        /\ ~calls[c].args.exists
        /\ calls[c].response.kind = "notFound"

\* C29: a generate_image or edit_image call whose adapter result holds no
\* image is answered isError and writes no file; a file is written only for
\* a result with at least one image, and then exactly one file: the first
\* image, at save_path or else at the auto-generated path of the output
\* directory, which is also the one image returned.  When the write itself
\* fails no file exists and the call is answered isError.
C29_OnlyFirstImageSaved ==
    \A c \in DOMAIN calls :
        calls[c].tool \in ImageTools =>
            LET images == calls[c].outcome.value.images
                written == calls[c].written
            IN /\ (calls[c].outcome.kind # "ok" \/ Len(images) = 0) => written = << >>
               /\ (calls[c].outcome.kind = "ok" /\ Len(images) = 0) =>
                     /\ calls[c].response.isError
                     /\ calls[c].response.kind = "noImage"
               /\ Len(written) <= 1
               /\ (calls[c].outcome.kind = "ok" /\ Len(images) > 0
                     /\ calls[c].args.savePath = "/data/a.png/x.png") =>
                     /\ written = << >>
                     /\ calls[c].response.isError
                     /\ calls[c].response.kind = "saveError"
               /\ (calls[c].outcome.kind = "ok" /\ Len(images) > 0
                     /\ calls[c].args.savePath # "/data/a.png/x.png") =>
                     /\ Len(written) = 1
                     /\ written[1].data = images[1].data
                     /\ calls[c].args.savePath = "/out/a.png" =>
                           written[1].path = "/out/a.png"
                     /\ calls[c].args.savePath = Undefined =>
                           written[1].path = AutoSavePath(calls[c].tool)
                     /\ ~calls[c].response.isError
                     /\ calls[c].response.value.images = <<images[1]>>

\* An image call whose result held two images has written the first one to
\* save_path.
C29_Witness ==
    \E c \in DOMAIN calls :
        /\ calls[c].tool = "generate_image"
        /\ calls[c].outcome.kind = "ok"
        /\ Len(calls[c].outcome.value.images) = 2
        /\ calls[c].args.savePath = "/out/a.png"
        /\ calls[c].written =
              <<[path |-> "/out/a.png", data |-> calls[c].outcome.value.images[1].data]>>

\* GEMINI_TIMEOUT is set to a text that is not a positive number.
NotPositive(text) == ParseInt(text) = Absent \/ ParseInt(text)[1] <= 0

\* C27: loadConfig either fails or returns a positive timeout: it fails
\* without GEMINI_API_KEY, gives 60000 when GEMINI_TIMEOUT is unset, and fails
\* with 'GEMINI_TIMEOUT must be a positive number' for every GEMINI_TIMEOUT
\* that does not parse to a positive number.
C27_TimeoutPositiveOrFail ==
    config.status # "none" =>
        /\ config.status = "ok" => (config.timeout # Absent /\ config.timeout[1] > 0)
        /\ env.apiKey = Absent => config.status = "error"
        /\ (env.apiKey = Some(<<"k">>) /\ env.timeoutStr = Absent) =>
              (config.status = "ok" /\ config.timeout = Some(60000))
        /\ (env.apiKey = Some(<<"k">>) /\ env.timeoutStr \notin {Absent, Some(<< >>)}
              /\ NotPositive(env.timeoutStr[1])) =>
              /\ config.status = "error"
              /\ config.error = "GEMINI_TIMEOUT must be a positive number"

\* The outcome of a finished call follows from its own request, its own
\* timer and what its own upstream operation did.
OwnOutcome(call, base) ==
    call.pc = "done" =>
        /\ base # Absent =>
              call.timer.delay =
                  Some(base[1] * TimeoutMultiplier(call.tool, call.op.request.model))
        /\ base = Absent => call.timer.delay = Absent
        /\ call.settledBy \in {"timer", "upstream"}
        /\ call.settledBy = "timer" =>
              /\ call.timer.state = "fired"
              /\ call.outcome.kind = "fail"
              /\ call.outcome.failure = handleError(NewError(RequestTimeoutMsg))
        /\ (call.settledBy = "upstream" /\ call.received # Absent) =>
              /\ call.outcome.kind = "ok"
              /\ call.outcome.value =
                    AdapterValue(call.tool, call.op.request, call.received[1],
                                 call.uploadResult, call.file)
        /\ (call.settledBy = "upstream" /\ call.received = Absent) =>
              /\ call.outcome.kind = "fail"
              /\ call.outcome.failure = handleError(call.caught)

\* C21: two tool calls in flight on one adapter are independent: each has
\* its own upstream operation and its own deadline timer, no step of one call
\* changes the record of the other, and under every interleaving the outcome
\* of a call is the one its own operation and timer give it.
C21_IndependentCalls ==
    [][\A c \in DOMAIN calls :
         /\ calls'[c] # calls[c] =>
               \A d \in DOMAIN calls \ {c} : calls'[d] = calls[d]
         /\ OwnOutcome(calls'[c], timeout)]_vars

\* One call has timed out while the other, started before the timeout, has
\* its result and its own timer still pending.
C21_Witness ==
    /\ DOMAIN calls = {1, 2}
    /\ calls[1].tool = "ask"
    /\ calls[1].settledBy = "timer"
    /\ calls[1].outcome.failure.category = "Timeout"
    /\ calls[2].tool = "analyze_image"
    /\ calls[2].outcome.kind = "ok"
    /\ calls[2].timer.state = "pending"
    /\ timeout # Absent
    /\ calls[2].timer.delay = Some(2 * timeout[1])

====
